---------------------------- MODULE Spec2Model ----------------------------
(***************************************************************************)
(* A model of the segment-display clock appliance clock.py (the            *)
(* interactive menu variant): its display driver, clock renderer, settings *)
(* store and the control loop with its sub-screens.                        *)
(*                                                                         *)
(* Strings of the program are modelled as sequences of one-character       *)
(* strings, so that slicing, padding and formatting are computed.  The two *)
(* arrow glyphs of the table are written "<up>" and "<dn>".                *)
(***************************************************************************)
EXTENDS Integers, Sequences, FiniteSets, TLC

VARIABLES
    pc,           \* position of the control loop (or of the function under study)
    state,        \* __main__: state ("clock" / "menu")
    settings,     \* ClockSettings: brightness, timezone, hour_24, flash_colon
    file,         \* clock_settings.json on disk
    input_queue,  \* queue.Queue shared with the encoder thread
    save_time,    \* __main__: save_time
    item,         \* __main__: item (menu index)
    index,        \* local `index` of the running sub-screen
    password,     \* set_wifi: password (list of symbol indices)
    done,         \* set_wifi: done
    colon,        \* Display.colon
    level,        \* brightness register of the display controller
    out,          \* bus writes and sleeps of the most recent display call
    now,          \* the time read by the most recent display_time call
    text,         \* argument of the most recent Display.display call
    wifi,         \* set_wifi: wifi (the sorted SSID list)
    ssid,         \* set_wifi: ssid
    pw,           \* set_wifi: pw (the assembled plaintext)
    octet,        \* display_ip_address: octet
    raised,       \* the exception that ended the loop ("none" while it runs)
    calls,        \* the nmcli / ip commands run so far, with their results
    found,        \* clock_settings.json as it was when the program started
    tracing,      \* history is kept (and the number of events bounded) iff TRUE
    handled,      \* history: the events consumed so far, with the screen that consumed them
    cyc,          \* history: value at the start of the current run of cycling events, and the run
    last_minute,  \* smallclock __main__: last_minute
    dark,         \* smallclock __main__: dark (FALSE until first assigned; not read before)
    dimmed        \* history: the readings of `now` at which auto-dimming changed the brightness

vars == <<pc, state, settings, file, input_queue, save_time, item, index,
          password, done, colon, level, out, now, text, wifi, ssid, pw, octet,
          raised, calls, found, tracing, handled, cyc, last_minute, dark, dimmed>>

\* Groups of variables, for UNCHANGED
loopVars == <<state, save_time, item>>
subVars  == <<index, password, done, wifi, ssid, pw, octet>>
dispVars == <<colon, level, out, now, text>>
autoVars == <<last_minute, dark, dimmed>>
metaVars == <<raised, calls, found, autoVars, tracing>>
histVars == <<metaVars, handled, cyc>>

-----------------------------------------------------------------------------
(* Bounds of the model *)

MaxTextLen == 6      \* longest string handed to display() in SpecDisplay
MaxSecond == 3       \* display_time is explored for seconds 0..MaxSecond
MaxQueue == 2        \* events waiting in input_queue at one time
MaxEvents == 4       \* events produced in one run of the whole control loop
FileSlack == 2       \* a settings file holds a brightness in -FileSlack .. 15+FileSlack
MaxPwLen == 2        \* SpecPw starts with a buffer of at most MaxPwLen entries
MaxElapsed == 70     \* seconds of wall clock the auto-dimming loop is followed for

MaxLines == 3        \* lines of output of one Wi-Fi scan

-----------------------------------------------------------------------------
(* Display: glyph table and frame writer *)

\* Display._SEG14
SEG14 ==
       " " :> 0 @@ "-" :> 192 @@ "[" :> 57 @@ "]" :> 15 @@
       "_" :> 8 @@ "0" :> 63 @@ "1" :> 6 @@ "2" :> 219 @@
       "3" :> 207 @@ "4" :> 230 @@ "5" :> 237 @@ "6" :> 253 @@
       "7" :> 7 @@ "8" :> 255 @@ "9" :> 239 @@ "!" :> 16386 @@
       "@" :> 699 @@ "#" :> 4856 @@ "$" :> 4845 @@ "%" :> 3108 @@
       "^" :> 288 @@ "&" :> 9053 @@ "*" :> 16320 @@ "(" :> 9216 @@
       ")" :> 2304 @@ "," :> 2048 @@ "." :> 16384 @@ "?" :> 24739 @@
       "/" :> 3072 @@ "\\" :> 8448 @@ "~" :> 256 @@ "=" :> 200 @@
       "+" :> 4800 @@ "{" :> 2377 @@ "}" :> 9353 @@ "|" :> 4608 @@
       "<" :> 1152 @@ ">" :> 320 @@ ":" :> 48 @@ ";" :> 2560 @@
       "'" :> 32 @@ "\"" :> 544 @@ "<up>" :> 14336 @@ "<dn>" :> 1792 @@
       "A" :> 247 @@ "a" :> 223 @@ "B" :> 9337 @@ "b" :> 252 @@
       "C" :> 57 @@ "c" :> 216 @@ "D" :> 2352 @@ "d" :> 222 @@
       "E" :> 121 @@ "e" :> 251 @@ "F" :> 241 @@ "f" :> 113 @@
       "G" :> 189 @@ "g" :> 239 @@ "H" :> 246 @@ "h" :> 244 @@
       "I" :> 4617 @@ "i" :> 4608 @@ "J" :> 30 @@ "j" :> 30 @@
       "K" :> 9328 @@ "k" :> 9328 @@ "L" :> 56 @@ "l" :> 24 @@
       "M" :> 1334 @@ "m" :> 1334 @@ "N" :> 8502 @@ "n" :> 212 @@
       "O" :> 63 @@ "o" :> 220 @@ "P" :> 243 @@ "p" :> 243 @@
       "Q" :> 8255 @@ "q" :> 8419 @@ "R" :> 8435 @@ "r" :> 80 @@
       "S" :> 237 @@ "s" :> 237 @@ "T" :> 4609 @@ "t" :> 4800 @@
       "U" :> 62 @@ "u" :> 28 @@ "V" :> 3120 @@ "v" :> 2064 @@
       "W" :> 10294 @@ "w" :> 10260 @@ "X" :> 11520 @@ "x" :> 11520 @@
       "Y" :> 5376 @@ "y" :> 5376 @@ "Z" :> 3081 @@ "z" :> 2120

\* Display._DIG_BASE
DIG_BASE == <<0, 2, 4, 6>>

\* x | 0x40 on a byte
Or40(x) == IF (x \div 64) % 2 = 1 THEN x ELSE x + 64

\* Display._encode_char_14seg: <<low, high>>
EncodeChar14(ch) ==
    LET val == IF ch \in DOMAIN SEG14 THEN SEG14[ch] ELSE 0
    IN  <<val % 256, (val \div 256) % 256>>

\* Mutant of Pad4: pads on the left, keeping the last 4 characters
Pad4_LeftPad(s4) == SubSeq(<<" ", " ", " ", " ">> \o s4, Len(s4) + 1, Len(s4) + 4)

\* (s4 + "    ")[:4]
Pad4(s4) == SubSeq(s4 \o <<" ", " ", " ", " ">>, 1, 4)

\* The loop of _write_four_chars over positions pos..3 of the padded string,
\* on frame[1:] (16 bytes, 1-indexed here).
RECURSIVE FillFrame(_, _, _, _)
FillFrame(data, s, pos, col) ==
    IF pos > 3 THEN data
    ELSE LET lh   == EncodeChar14(s[pos + 1])
             high == IF pos = 1 /\ col THEN Or40(lh[2]) ELSE lh[2]
             base == DIG_BASE[pos + 1]
         IN  FillFrame([data EXCEPT ![base + 1] = lh[1], ![base + 2] = high],
                       s, pos + 1, col)

BlankFrame == [k \in 1..16 |-> 0]

\* One bus transaction: write_i2c_block_data(address, reg, data)
BlockWrite(reg, data) == [op |-> "block", reg |-> reg, data |-> data]
\* time.sleep(scroll_delay)
ScrollSleep == [op |-> "sleep", reg |-> 0, data |-> <<>>]

\* Display._write_four_chars: the single block transaction it issues
WriteFourChars(s4, col) == BlockWrite(0, FillFrame(BlankFrame, Pad4(s4), 0, col))

\* Mutant of ScrollFrom: sleeps after every window, the last one included
RECURSIVE ScrollFrom_TrailingSleep(_, _, _)
ScrollFrom_TrailingSleep(t, i, col) ==
    IF i > Len(t) - 4 THEN <<>>
    ELSE <<WriteFourChars(SubSeq(t, i + 1, i + 4), col), ScrollSleep>>
         \o ScrollFrom_TrailingSleep(t, i + 1, col)

\* The scroll loop of Display.display, from window i
RECURSIVE ScrollFrom(_, _, _)
ScrollFrom(t, i, col) ==
    LET n == Len(t)
    IN  IF i > n - 4 THEN <<>>
        ELSE <<WriteFourChars(SubSeq(t, i + 1, i + 4), col)>>
             \o (IF i < n - 4 THEN <<ScrollSleep>> ELSE <<>>)
             \o ScrollFrom(t, i + 1, col)

\* Display.display: the bus writes and sleeps of one call, in order
DisplayOps(t, col) ==
    IF Len(t) <= 4 THEN <<WriteFourChars(t, col)>>
    ELSE ScrollFrom(t, 0, col)

\* Display.clear
ClearOps == <<BlockWrite(0, BlankFrame)>>

\* Display.set_brightness: level = max(0, min(15, int(level)))
ClampLevel(l) == IF l > 15 THEN 15 ELSE IF l < 0 THEN 0 ELSE l

-----------------------------------------------------------------------------
(* SpecDisplay: Display.display applied to every short string *)

\* "<tab>" stands for a character the glyph table does not hold
DisplayAlphabet == {"1", "?", " ", "<tab>"}

Texts(n) == UNION {[1..k -> DisplayAlphabet] : k \in 0..n}

Defaults == [brightness |-> 0, timezone |-> "America/Chicago",
             hour_24 |-> FALSE, flash_colon |-> TRUE]

NoTime == [hour |-> 0, minute |-> 0, second |-> 0]
\* smallclock __main__: last_minute = -1; nothing dimmed yet
NoAuto == last_minute = -1 /\ dark = FALSE /\ dimmed = <<>>

NoCyc == [base |-> 0, path |-> <<>>]

InitDisplay ==
    /\ pc = "call"
    /\ text \in Texts(MaxTextLen)
    /\ colon \in BOOLEAN
    /\ out = <<>>
    /\ state = "clock" /\ settings = Defaults
    /\ file = [kind |-> "ok", data |-> Defaults]
    /\ input_queue = <<>> /\ save_time = 0 /\ item = 0 /\ index = 0
    /\ password = <<>> /\ done = FALSE /\ level = 0 /\ now = NoTime
    /\ wifi = <<>> /\ ssid = <<>> /\ pw = <<>> /\ octet = <<>>
    /\ raised = "none" /\ calls = <<>> /\ found = file /\ NoAuto
    /\ tracing = FALSE /\ handled = <<>> /\ cyc = NoCyc

CallDisplay ==
    /\ pc = "call"
    /\ out' = DisplayOps(text, colon)
    /\ pc' = "ret"
    /\ UNCHANGED <<settings, file, input_queue, loopVars, subVars, histVars,
                   colon, level, now, text>>

SpecDisplay == InitDisplay /\ [][CallDisplay]_vars

-----------------------------------------------------------------------------
(* ClockSettings *)

\* ClockSettings.save: the file json.dump leaves on disk
SaveOf(s) == [kind |-> "ok", data |-> s]

\* Mutant of LoadOf: falls back to the defaults without rewriting the file
LoadOf_NoRewrite(f) ==
    IF f.kind = "ok"
    THEN <<[brightness  |-> f.data.brightness,
            timezone    |-> f.data.timezone,
            hour_24     |-> f.data.hour_24,
            flash_colon |-> f.data.flash_colon], f>>
    ELSE <<Defaults, f>>

\* ClockSettings.__init__ + load: <<settings, file>> after construction.
\* A readable file is copied field by field, unchecked; a missing or
\* malformed one leaves the defaults, which are saved at once.
LoadOf(f) ==
    IF f.kind = "ok"
    THEN <<[brightness  |-> f.data.brightness,
            timezone    |-> f.data.timezone,
            hour_24     |-> f.data.hour_24,
            flash_colon |-> f.data.flash_colon], f>>
    ELSE <<Defaults, SaveOf(Defaults)>>

\* Mutant of IncreaseBrightness: wraps around instead of clamping
IncreaseBrightness_Wrap(b) == (b + 1) % 16

\* ClockSettings.increase_brightness
IncreaseBrightness(b) == IF b + 1 > 15 THEN 15 ELSE b + 1

\* ClockSettings.decrease_brightness
DecreaseBrightness(b) == IF b - 1 < 0 THEN 0 ELSE b - 1

\* __main__, confirm in the clock state
ToggleBrightness(b) == IF b > 0 THEN 0 ELSE 15

-----------------------------------------------------------------------------
(* display_time *)

DigitChar == <<"0", "1", "2", "3", "4", "5", "6", "7", "8", "9">>

\* str(n) for n >= 0
RECURSIVE Decimal(_)
Decimal(n) == IF n < 10 THEN <<DigitChar[n + 1]>>
              ELSE Decimal(n \div 10) \o <<DigitChar[(n % 10) + 1]>>

\* right-align s in width w, filling with ch
RECURSIVE PadLeft(_, _, _)
PadLeft(s, w, ch) == IF Len(s) >= w THEN s ELSE PadLeft(<<ch>> \o s, w, ch)

\* f"{n:2d}" and f"{n:02d}"
Fmt2d(n)  == PadLeft(Decimal(n), 2, " ")
Fmt02d(n) == PadLeft(Decimal(n), 2, "0")

\* Mutant of HourShown: hour % 12 without the 0 -> 12 step
HourShown_NoTwelve(h24, hour) == IF h24 THEN hour ELSE hour % 12

\* display_time: the hour after the 12/24-hour rule
HourShown(h24, hour) ==
    IF h24 THEN hour
    ELSE IF hour % 12 = 0 THEN 12 ELSE hour % 12

\* Mutant of DisplayTimeColon: the colon rule of the loop head, not overridden
DisplayTimeColon_LoopHead(flash, second) == flash /\ second % 2 = 0

\* display_time: disp.colon
DisplayTimeColon(flash, second) == IF flash THEN second % 2 = 0 ELSE TRUE

\* __main__ loop head: disp.colon = settings.flash_colon and (int(time.time()) % 2 == 0)
LoopHeadColon(flash, second) == flash /\ second % 2 = 0

\* display_time: the text handed to disp.display
TimeText(s, t) == Fmt2d(HourShown(s.hour_24, t.hour)) \o Fmt02d(t.minute)

\* The zones pytz resolves, as far as the model needs them: the seven of
\* set_timezone and one it does not list
PytzZones == {"America/New_York", "America/Chicago", "America/Denver",
              "America/Los_Angeles", "America/Anchorage", "America/Honolulu",
              "UTC", "Europe/Paris"}

\* datetime.now(tz): every wall-clock reading, seconds up to MaxSecond
AllTimes == [hour : 0..23, minute : 0..59, second : 0..MaxSecond]

\* the readings the whole-loop specifications draw from
LoopTimes == {[hour |-> 0, minute |-> 5, second |-> 30],
              [hour |-> 13, minute |-> 5, second |-> 31]}

-----------------------------------------------------------------------------
(* The event queue and the encoder thread *)

Events == {"up", "down", "left", "right", "confirm"}

\* history: event e consumed by screen scr
Consumed(scr, e) ==
    IF tracing THEN Append(handled, [scr |-> scr, ev |-> e, pre |-> settings])
    ELSE handled

\* history: one more cycling step in direction d ("n" next / "p" previous)
\* from value cur.  A run of "n" is followed up to `period` steps, any other
\* path for two steps; a longer one starts over from cur.
CycStep(c, cur, d, period) ==
    IF c.path = <<>> THEN [base |-> cur, path |-> <<d>>]
    ELSE IF d = "n" /\ (\A k \in 1..Len(c.path) : c.path[k] = "n") /\ Len(c.path) < period
         THEN [c EXCEPT !.path = Append(@, d)]
    ELSE IF Len(c.path) = 1 THEN [c EXCEPT !.path = Append(@, d)]
    ELSE [base |-> cur, path |-> <<d>>]

\* Mutant of Produce: a one-slot mailbox, a new event replacing a waiting one
Produce_Overwrite(E) ==
    /\ pc # "exit"
    /\ Len(input_queue) < MaxQueue
    /\ tracing => Len(handled) + Len(input_queue) < MaxEvents
    /\ \E e \in E : input_queue' = <<e>>
    /\ UNCHANGED <<pc, settings, file, loopVars, subVars, dispVars, histVars>>

\* poll_encoder callbacks: q.put(val).  The queue is unbounded in the program;
\* the model holds at most MaxQueue waiting events and, when the history is
\* kept, MaxEvents events in all.
Produce(E) ==
    /\ pc # "exit"
    /\ Len(input_queue) < MaxQueue
    /\ tracing => Len(handled) + Len(input_queue) < MaxEvents
    /\ \E e \in E : input_queue' = Append(input_queue, e)
    /\ UNCHANGED <<pc, settings, file, loopVars, subVars, dispVars, histVars>>

ProduceAny == Produce(Events)

\* only the events that adjust brightness in the clock state
BrightnessEvents == {"up", "down", "confirm"}

-----------------------------------------------------------------------------
(* __main__: start-up and the clock state *)

\* settings = ClockSettings()
Load ==
    /\ pc = "load"
    /\ settings' = LoadOf(file)[1]
    /\ file' = LoadOf(file)[2]
    /\ pc' = "init_disp"
    /\ UNCHANGED <<input_queue, loopVars, subVars, dispVars, histVars>>

\* disp = Display(...); state = "clock"; save_time = 0
DispInit ==
    /\ pc = "init_disp"
    /\ colon' = TRUE
    /\ level' = settings.brightness % 16
    /\ out' = ClearOps
    /\ state' = "clock"
    /\ save_time' = 0
    /\ pc' = "top"
    /\ UNCHANGED <<settings, file, input_queue, item, subVars, now, text, histVars>>

\* Top of the loop in the clock state: the colon assignment and display_time.
\* An unresolvable zone raises out of display_time: the finally clause clears
\* the display and the program ends.
ClockRender(T) ==
    /\ pc = "top"
    /\ state = "clock"
    /\ \E t \in T :
          IF settings.timezone \in PytzZones
          THEN /\ now' = t
               /\ colon' = DisplayTimeColon(settings.flash_colon, t.second)
               /\ text' = TimeText(settings, t)
               /\ out' = DisplayOps(TimeText(settings, t),
                                    DisplayTimeColon(settings.flash_colon, t.second))
               /\ pc' = "drain"
               /\ UNCHANGED raised
          ELSE /\ colon' = LoopHeadColon(settings.flash_colon, t.second)
               /\ raised' = "UnknownTimeZoneError"
               /\ out' = ClearOps
               /\ pc' = "exit"
               /\ UNCHANGED <<now, text>>
    /\ UNCHANGED <<settings, file, input_queue, loopVars, subVars, level,
                   calls, found, autoVars, tracing, handled, cyc>>

ClockRenderLoop == ClockRender(LoopTimes)
ClockRenderAll  == ClockRender(AllTimes)

\* One pass of `while not input_queue.empty()` in the clock state
DrainEvent ==
    /\ pc = "drain"
    /\ input_queue # <<>>
    /\ LET e == Head(input_queue)
           b == settings.brightness
           nb == CASE e \in {"+", "up"}   -> IncreaseBrightness(b)
                   [] e \in {"-", "down"} -> DecreaseBrightness(b)
                   [] e = "confirm"       -> ToggleBrightness(b)
                   [] OTHER               -> b
       IN  /\ input_queue' = Tail(input_queue)
           /\ handled' = Consumed("clock", e)
           /\ IF e \in {"+", "up", "-", "down", "confirm"}
              THEN /\ settings' = [settings EXCEPT !.brightness = nb]
                   /\ level' = ClampLevel(nb)
                   /\ save_time' = 10
                   /\ UNCHANGED state
              ELSE /\ state' = IF e \in {"right", "left"} THEN "menu" ELSE state
                   /\ UNCHANGED <<settings, level, save_time>>
    /\ UNCHANGED <<pc, file, item, subVars, colon, out, now, text, metaVars, cyc>>

\* The queue is empty: the drain loop ends.  In the clock state the outer loop
\* starts over at once (the countdown and the sleep belong to the menu block);
\* otherwise the menu block begins: disp.colon = False; item = 0.
DrainDone ==
    /\ pc = "drain"
    /\ input_queue = <<>>
    /\ IF state = "menu"
       THEN colon' = FALSE /\ item' = 0 /\ cyc' = NoCyc /\ pc' = "menu_show"
       ELSE pc' = "top" /\ UNCHANGED <<colon, item, cyc>>
    /\ UNCHANGED <<settings, file, input_queue, state, save_time, subVars,
                   level, out, now, text, metaVars, handled>>

-----------------------------------------------------------------------------
(* __main__: the menu block *)

\* menu_items
menu_items == <<<<"F", "L", "A", "S", "H">>,
               <<"2", "4", "H">>,
               <<"Z", "O", "N", "E">>,
               <<"W", "I", "F", "I">>,
               <<"I", "P">>>>

\* Mutant of SubScreenEntry: the first two branches exchanged
SubScreenEntry_Swapped == <<"h24_show", "flash_show", "tz_entry", "wifi_entry", "ip_entry">>

\* the sub-screen function each menu item calls, by position
SubScreenEntry == <<"flash_show", "h24_show", "tz_entry", "wifi_entry", "ip_entry">>

\* disp.display(menu_items[item])
MenuShow ==
    /\ pc = "menu_show"
    /\ text' = menu_items[item + 1]
    /\ out' = DisplayOps(menu_items[item + 1], colon)
    /\ pc' = "menu_wait"
    /\ UNCHANGED <<settings, file, input_queue, loopVars, subVars, colon, level,
                   now, histVars>>

\* input = input_queue.get() in the menu loop, and its dispatch
MenuWait ==
    /\ pc = "menu_wait"
    /\ input_queue # <<>>
    /\ LET e == Head(input_queue)
       IN  /\ input_queue' = Tail(input_queue)
           /\ handled' = Consumed("menu", e)
           /\ CASE e \in {"right", "up"} ->
                     /\ item' = (item + 1) % Len(menu_items)
                     /\ cyc' = CycStep(cyc, item, "n", Len(menu_items))
                     /\ pc' = "menu_show"
                     /\ UNCHANGED state
                [] e \in {"left", "down"} ->
                     /\ item' = (item - 1) % Len(menu_items)
                     /\ cyc' = CycStep(cyc, item, "p", Len(menu_items))
                     /\ pc' = "menu_show"
                     /\ UNCHANGED state
                [] e = "confirm" ->
                     /\ pc' = SubScreenEntry[item + 1]
                     /\ cyc' = NoCyc
                     /\ UNCHANGED <<item, state>>
                [] OTHER ->
                     /\ state' = "clock"
                     /\ pc' = "tail"
                     /\ cyc' = NoCyc
                     /\ UNCHANGED item
    /\ UNCHANGED <<settings, file, save_time, subVars, dispVars, metaVars>>

\* After the menu loop, still inside the menu block: the deferred-save
\* countdown (reading `id save_time == 0:` as the `if` it stands for) and
\* the sleep to the next second boundary.
LoopTail ==
    /\ pc = "tail"
    /\ IF save_time > 0
       THEN /\ save_time' = save_time - 1
            /\ file' = IF save_time - 1 = 0 THEN SaveOf(settings) ELSE file
       ELSE UNCHANGED <<save_time, file>>
    /\ pc' = "top"
    /\ UNCHANGED <<settings, input_queue, state, item, subVars, dispVars, histVars>>

-----------------------------------------------------------------------------
(* set_flash and set_24h *)

Directions == {"up", "down", "right", "left"}

FlashText(on) == IF on THEN <<"F", "L", "A", "S", "H", " ", " ", "O", "n">>
                 ELSE <<"F", "L", "A", "S", "H", " ", " ", "O", "f", "f">>

\* Mutant of FlashOnEvent: confirm toggles too
FlashOnEvent_ConfirmToggles(s, e) ==
    IF e \in Directions \cup {"confirm"} THEN [s EXCEPT !.flash_colon = ~s.flash_colon] ELSE s

\* Mutant of FlashOnEvent: only up and down toggle
FlashOnEvent_UpDownOnly(s, e) ==
    IF e \in {"up", "down"} THEN [s EXCEPT !.flash_colon = ~s.flash_colon] ELSE s

\* set_flash: the settings after event e
FlashOnEvent(s, e) ==
    IF e \in Directions THEN [s EXCEPT !.flash_colon = ~s.flash_colon] ELSE s

\* set_flash: disp.display(f"FLASH  {status}")
FlashShow ==
    /\ pc = "flash_show"
    /\ text' = FlashText(settings.flash_colon)
    /\ out' = DisplayOps(FlashText(settings.flash_colon), colon)
    /\ pc' = "flash_wait"
    /\ UNCHANGED <<settings, file, input_queue, loopVars, subVars, colon, level,
                   now, histVars>>

\* set_flash: input = input_queue.get() and its dispatch; on return the
\* caller sets state = "clock" and leaves the menu loop
FlashWait ==
    /\ pc = "flash_wait"
    /\ input_queue # <<>>
    /\ LET e == Head(input_queue)
       IN  /\ input_queue' = Tail(input_queue)
           /\ handled' = Consumed("flash", e)
           /\ settings' = FlashOnEvent(settings, e)
           /\ CASE e \in Directions ->
                     /\ pc' = "flash_show"
                     /\ UNCHANGED <<file, state>>
                [] e = "confirm" ->
                     /\ file' = SaveOf(settings)
                     /\ state' = "clock"
                     /\ pc' = "tail"
                [] OTHER ->
                     /\ pc' = "flash_show"
                     /\ UNCHANGED <<file, state>>
    /\ UNCHANGED <<save_time, item, subVars, dispVars, metaVars, cyc>>

HourText(h24) == IF h24 THEN <<"2", "4">> ELSE <<"1", "2">>

\* set_24h: disp.display(f"{status}")
H24Show ==
    /\ pc = "h24_show"
    /\ text' = HourText(settings.hour_24)
    /\ out' = DisplayOps(HourText(settings.hour_24), colon)
    /\ pc' = "h24_wait"
    /\ UNCHANGED <<settings, file, input_queue, loopVars, subVars, colon, level,
                   now, histVars>>

\* set_24h: input = input_queue.get() and its dispatch
H24Wait ==
    /\ pc = "h24_wait"
    /\ input_queue # <<>>
    /\ LET e == Head(input_queue)
       IN  /\ input_queue' = Tail(input_queue)
           /\ handled' = Consumed("h24", e)
           /\ CASE e \in Directions ->
                     /\ settings' = [settings EXCEPT !.hour_24 = ~settings.hour_24]
                     /\ pc' = "h24_show"
                     /\ UNCHANGED <<file, state>>
                [] e = "confirm" ->
                     /\ file' = SaveOf(settings)
                     /\ state' = "clock"
                     /\ pc' = "tail"
                     /\ UNCHANGED settings
                [] OTHER ->
                     /\ pc' = "h24_show"
                     /\ UNCHANGED <<settings, file, state>>
    /\ UNCHANGED <<save_time, item, subVars, dispVars, metaVars, cyc>>

-----------------------------------------------------------------------------
(* set_timezone *)

\* zones: keys and values, in insertion order
ZoneKeys == <<<<"E", "a", "s", "t", "e", "r", "n">>,
              <<"C", "e", "n", "t", "r", "a", "l">>,
              <<"M", "o", "u", "n", "t", "a", "i", "n">>,
              <<"P", "a", "c", "i", "f", "i", "c">>,
              <<"A", "l", "a", "s", "k", "a">>,
              <<"H", "a", "w", "a", "i", "i">>,
              <<"U", "T", "C">>>>

ZoneValues == <<"America/New_York", "America/Chicago", "America/Denver",
                "America/Los_Angeles", "America/Anchorage", "America/Honolulu",
                "UTC">>

\* Mutant of TzNext: stops at the last zone instead of wrapping
TzNext_Saturate(i) == IF i + 1 > Len(ZoneValues) - 1 THEN Len(ZoneValues) - 1 ELSE i + 1

\* set_timezone: index = (index + 1) % len(zones)
TzNext(i) == (i + 1) % Len(ZoneValues)

\* set_timezone: index = (index - 1) % len(zones)
TzPrev(i) == (i - 1) % Len(ZoneValues)

\* set_timezone: index = list(zones.values()).index(settings.timezone).
\* A zone that is not listed raises ValueError, which nothing catches before
\* the finally clause of __main__: the display is cleared and the program ends.
TzEntry ==
    /\ pc = "tz_entry"
    /\ IF \E k \in 1..Len(ZoneValues) : ZoneValues[k] = settings.timezone
       THEN /\ index' = (CHOOSE k \in 1..Len(ZoneValues) : ZoneValues[k] = settings.timezone) - 1
            /\ pc' = "tz_show"
            /\ UNCHANGED <<out, text, raised>>
       ELSE /\ raised' = "ValueError"
            /\ out' = ClearOps
            /\ pc' = "exit"
            /\ UNCHANGED <<index, text>>
    /\ cyc' = NoCyc
    /\ UNCHANGED <<settings, file, input_queue, loopVars, password, done, wifi,
                   ssid, pw, octet, colon, level, now, calls, found, autoVars, tracing, handled>>

\* set_timezone: disp.display(f"{list(zones.keys())[index]}")
TzShow ==
    /\ pc = "tz_show"
    /\ text' = ZoneKeys[index + 1]
    /\ out' = DisplayOps(ZoneKeys[index + 1], colon)
    /\ pc' = "tz_wait"
    /\ UNCHANGED <<settings, file, input_queue, loopVars, subVars, colon, level,
                   now, histVars>>

\* set_timezone: input = input_queue.get() and its dispatch
TzWait ==
    /\ pc = "tz_wait"
    /\ input_queue # <<>>
    /\ LET e == Head(input_queue)
       IN  /\ input_queue' = Tail(input_queue)
           /\ handled' = Consumed("tz", e)
           /\ CASE e \in {"up", "right"} ->
                     /\ index' = TzNext(index)
                     /\ settings' = [settings EXCEPT !.timezone = ZoneValues[TzNext(index) + 1]]
                     /\ cyc' = CycStep(cyc, index, "n", Len(ZoneValues))
                     /\ pc' = "tz_show"
                     /\ UNCHANGED <<file, state>>
                [] e \in {"down", "left"} ->
                     /\ index' = TzPrev(index)
                     /\ settings' = [settings EXCEPT !.timezone = ZoneValues[TzPrev(index) + 1]]
                     /\ cyc' = CycStep(cyc, index, "p", Len(ZoneValues))
                     /\ pc' = "tz_show"
                     /\ UNCHANGED <<file, state>>
                [] e = "confirm" ->
                     /\ file' = SaveOf(settings)
                     /\ state' = "clock"
                     /\ pc' = "tail"
                     /\ UNCHANGED <<settings, index, cyc>>
                [] OTHER ->
                     /\ pc' = "tz_show"
                     /\ UNCHANGED <<settings, file, state, index, cyc>>
    /\ UNCHANGED <<save_time, item, password, done, wifi, ssid, pw, octet,
                   dispVars, metaVars>>

-----------------------------------------------------------------------------
(* set_wifi: password entry *)

\* list(symbols.keys())
SymbolKeys ==
    <<"a", "b", "c", "d", "e", "f", "g", "h", "i", "j",
     "k", "l", "m", "n", "o", "p", "q", "r", "s", "t",
     "u", "v", "w", "x", "y", "z", "1", "2", "3", "4",
     "5", "6", "7", "8", "9", "0", "A", "B", "C", "D",
     "E", "F", "G", "H", "I", "J", "K", "L", "M", "N",
     "O", "P", "Q", "R", "S", "T", "U", "V", "W", "X",
     "Y", "Z", "-", "_", "[", "]", "!", "@", "#", "$",
     "%", "^", "&", "*", "(", ")", ",", ".", "?", "/",
     "\\", "~", "=", "+", "{", "}", "|", "<", ">", ":",
     ";", "'", "\"", " ">>

\* list(symbols.values())
SymbolValues ==
    <<<<"<dn>","A"," ","a">>, <<"<dn>","B"," ","b">>, <<"<dn>","C"," ","c">>, <<"<dn>","D"," ","d">>,
     <<"<dn>","E"," ","e">>, <<"<dn>","F"," ","f">>, <<"<dn>","G"," ","g">>, <<"<dn>","H"," ","h">>,
     <<"<dn>","I"," ","i">>, <<"<dn>","J"," ","j">>, <<"<dn>","K"," ","k">>, <<"<dn>","L"," ","l">>,
     <<"<dn>","M"," ","m">>, <<"<dn>","N"," ","n">>, <<"<dn>","O"," ","o">>, <<"<dn>","P"," ","p">>,
     <<"<dn>","Q"," ","q">>, <<"<dn>","R"," ","r">>, <<"<dn>","S"," ","s">>, <<"<dn>","T"," ","t">>,
     <<"<dn>","U"," ","u">>, <<"<dn>","V"," ","v">>, <<"<dn>","W"," ","w">>, <<"<dn>","X"," ","x">>,
     <<"<dn>","Y"," ","y">>, <<"<dn>","Z"," ","z">>, <<"N"," "," ","1">>, <<"N"," "," ","2">>,
     <<"N"," "," ","3">>, <<"N"," "," ","4">>, <<"N"," "," ","5">>, <<"N"," "," ","6">>,
     <<"N"," "," ","7">>, <<"N"," "," ","8">>, <<"N"," "," ","9">>, <<"N"," "," ","0">>,
     <<"<up>","A"," ","A">>, <<"<up>","B"," ","B">>, <<"<up>","C"," ","C">>, <<"<up>","D"," ","D">>,
     <<"<up>","E"," ","E">>, <<"<up>","F"," ","F">>, <<"<up>","G"," ","G">>, <<"<up>","H"," ","H">>,
     <<"<up>","I"," ","I">>, <<"<up>","J"," ","J">>, <<"<up>","K"," ","K">>, <<"<up>","L"," ","L">>,
     <<"<up>","M"," ","M">>, <<"<up>","N"," ","N">>, <<"<up>","O"," ","O">>, <<"<up>","P"," ","P">>,
     <<"<up>","Q"," ","Q">>, <<"<up>","R"," ","R">>, <<"<up>","S"," ","S">>, <<"<up>","T"," ","T">>,
     <<"<up>","U"," ","U">>, <<"<up>","V"," ","V">>, <<"<up>","W"," ","W">>, <<"<up>","X"," ","X">>,
     <<"<up>","Y"," ","Y">>, <<"<up>","Z"," ","Z">>, <<" "," "," ","-">>, <<" "," "," ","_">>,
     <<"L","B"," ","[">>, <<"R","B"," ","]">>, <<"<up>","1"," ","!">>, <<"<up>","2"," ","@">>,
     <<"<up>","3"," ","#">>, <<"<up>","4"," ","$">>, <<"<up>","5"," ","%">>, <<"<up>","6"," ","^">>,
     <<"<up>","7"," ","&">>, <<"<up>","8"," ","*">>, <<"<up>","9"," ","(">>, <<"<up>","0"," ",")">>,
     <<"C","O","M",",">>, <<"D","O","T",".">>, <<"Q","U","E","?">>, <<"S","L"," ","/">>,
     <<"B","S","L","\\">>, <<"T","L","D","~">>, <<"E","Q","L","=">>, <<"P","L","S","+">>,
     <<"L","C"," ","{">>, <<"R","C"," ","}">>, <<"P","I","P","|">>, <<"L","T"," ","<">>,
     <<"G","T"," ",">">>, <<"C","O","L",":">>, <<"S","C","L",";">>, <<"S","Q"," ","'">>,
     <<"D","Q"," ","\"">>, <<"S","P","C"," ">>>>

\* Mutant of PwUp: stops at the last symbol instead of wrapping
PwUp_Saturate(letter) == IF letter + 1 > Len(SymbolKeys) - 1 THEN Len(SymbolKeys) - 1
                         ELSE letter + 1

\* set_wifi: (letter + 1) % len(symbols)
PwUp(letter) == (letter + 1) % Len(SymbolKeys)

\* set_wifi: (letter - 1) % len(symbols)
PwDown(letter) == (letter - 1) % Len(SymbolKeys)

\* Mutant of Plaintext: the assembly loop stops one entry short
Plaintext_DropLast(p) == [i \in 1..(Len(p) - 1) |-> SymbolKeys[p[i] + 1]]

\* set_wifi: pw += list(symbols.keys())[password[i]] for every i
Plaintext(p) == [i \in 1..Len(p) |-> SymbolKeys[p[i] + 1]]

\* Mutant of PwRight: the cursor stops on the last entry of the buffer
PwRight_StayInside(i, n) == IF i + 1 < n - 1 THEN i + 1 ELSE n - 1

\* set_wifi: index = min(index + 1, len(password))
PwRight(i, n) == IF i + 1 < n THEN i + 1 ELSE n

\* set_wifi: index = max(0, index - 1)
PwLeft(i) == IF i - 1 > 0 THEN i - 1 ELSE 0

\* Head of the password loop: extend the buffer when the cursor is past its
\* end, then show the cursor's symbol unless a preview is on screen
PwTop ==
    /\ pc = "pw_top"
    /\ LET ext    == IF index + 1 > Len(password) THEN Append(password, 0) ELSE password
           letter == ext[index + 1]
       IN  /\ password' = ext
           /\ IF ~done
              THEN /\ text' = SymbolValues[letter + 1]
                   /\ out' = DisplayOps(SymbolValues[letter + 1], colon)
              ELSE UNCHANGED <<text, out>>
    /\ pc' = "pw_wait"
    /\ UNCHANGED <<settings, file, input_queue, loopVars, index, done, wifi, ssid,
                   pw, octet, colon, level, now, histVars>>

\* set_wifi: input = input_queue.get() in the password loop, and its dispatch
PwWait ==
    /\ pc = "pw_wait"
    /\ input_queue # <<>>
    /\ LET e      == Head(input_queue)
           letter == password[index + 1]
       IN  /\ input_queue' = Tail(input_queue)
           /\ handled' = Consumed("password", e)
           /\ CASE e = "up" ->
                     /\ password' = [password EXCEPT ![index + 1] = PwUp(letter)]
                     /\ done' = FALSE
                     /\ cyc' = CycStep(cyc, letter, "n", Len(SymbolKeys))
                     /\ pc' = "pw_top"
                     /\ UNCHANGED <<index, pw, text, out>>
                [] e = "down" ->
                     /\ password' = [password EXCEPT ![index + 1] = PwDown(letter)]
                     /\ done' = FALSE
                     /\ cyc' = CycStep(cyc, letter, "p", Len(SymbolKeys))
                     /\ pc' = "pw_top"
                     /\ UNCHANGED <<index, pw, text, out>>
                [] e = "right" ->
                     /\ index' = PwRight(index, Len(password))
                     /\ done' = FALSE
                     /\ cyc' = NoCyc
                     /\ pc' = "pw_top"
                     /\ UNCHANGED <<password, pw, text, out>>
                [] e = "left" ->
                     /\ index' = PwLeft(index)
                     /\ done' = FALSE
                     /\ cyc' = NoCyc
                     /\ pc' = "pw_top"
                     /\ UNCHANGED <<password, pw, text, out>>
                [] e = "confirm" /\ done ->
                     /\ pc' = "wifi_add"
                     /\ UNCHANGED <<password, index, done, pw, text, out, cyc>>
                [] e = "confirm" /\ ~done ->
                     /\ pw' = Plaintext(password)
                     /\ text' = Plaintext(password)
                     /\ out' = DisplayOps(Plaintext(password), colon)
                     /\ done' = TRUE
                     /\ cyc' = NoCyc
                     /\ pc' = "pw_top"
                     /\ UNCHANGED <<password, index>>
                [] OTHER ->
                     /\ pc' = "pw_top"
                     /\ UNCHANGED <<password, index, done, pw, text, out, cyc>>
    /\ UNCHANGED <<settings, file, loopVars, wifi, ssid, octet, colon, level,
                   now, metaVars>>

-----------------------------------------------------------------------------
(* set_wifi: scan, SSID selection and connection *)

\* code points of the characters the scanned names are written with
Ord == "A" :> 65 @@ "a" :> 97 @@ "b" :> 98

\* a < b on Python strings: by code point, a proper prefix first
RECURSIVE StrLess(_, _)
StrLess(a, b) ==
    IF b = <<>> THEN FALSE
    ELSE IF a = <<>> THEN TRUE
    ELSE IF Ord[Head(a)] # Ord[Head(b)] THEN Ord[Head(a)] < Ord[Head(b)]
    ELSE StrLess(Tail(a), Tail(b))

\* sorted(S) of a set of strings
RECURSIVE Sorted(_)
Sorted(S) ==
    IF S = {} THEN <<>>
    ELSE LET m == CHOOSE x \in S : \A y \in S \ {x} : StrLess(x, y)
         IN  <<m>> \o Sorted(S \ {m})

\* Mutant of ScanList: keeps the names in scan order, without sorting or
\* removing duplicates
ScanList_AsScanned(lines) == SelectSeq(lines, LAMBDA l : l # <<>>)

\* set_wifi: sorted(set([line for line in result.stdout.splitlines() if line]))
ScanList(lines) == Sorted({lines[k] : k \in {j \in 1..Len(lines) : lines[j] # <<>>}})

\* one subprocess.run, as recorded in calls
Call(cmd, s, psk, rc, stdout) ==
    [cmd |-> cmd, ssid |-> s, psk |-> psk, rc |-> rc, stdout |-> stdout]

\* the lines nmcli may print: names of networks in range, empty ones (hidden
\* networks) included, in any order, repeated or not
ScanNames == {<<>>, <<"a">>, <<"A">>, <<"a", "b">>}
ScanOutputs == UNION {[1..k -> ScanNames] : k \in 0..MaxLines}

\* outcomes of an nmcli invocation: exit status 0, another status, or
\* subprocess.run raising
RunResults == {"0", "nonzero", "raise"}

\* set_wifi: disp.display("ENTER PASSWORD")
EnterPassword == <<"E", "N", "T", "E", "R", " ", "P", "A", "S", "S", "W", "O", "R", "D">>

\* time.sleep(2)
DwellSleep == [op |-> "dwell", reg |-> 0, data |-> <<>>]

Good == <<"G", "O", "O", "D">>
Fail == <<"F", "A", "I", "L">>

\* set_wifi: the scan and index = 0.  A scan that cannot be run raises out of
\* set_wifi; nothing catches it before the finally clause of __main__.
WifiEntry ==
    /\ pc = "wifi_entry"
    /\ \/ \E lines \in ScanOutputs :
             /\ calls' = Append(calls, Call("list", <<>>, <<>>, "0", lines))
             /\ wifi' = ScanList(lines)
             /\ index' = 0
             /\ pc' = "wifi_show"
             /\ UNCHANGED <<raised, out>>
       \/ /\ calls' = Append(calls, Call("list", <<>>, <<>>, "raise", <<>>))
          /\ raised' = "FileNotFoundError"
          /\ out' = ClearOps
          /\ pc' = "exit"
          /\ UNCHANGED <<wifi, index>>
    /\ cyc' = NoCyc
    /\ UNCHANGED <<settings, file, input_queue, loopVars, password, done, ssid,
                   pw, octet, colon, level, now, text, found, autoVars, tracing, handled>>

\* set_wifi: disp.display(f"{wifi[index]}"); with an empty list wifi[index]
\* raises IndexError
WifiShow ==
    /\ pc = "wifi_show"
    /\ IF index < Len(wifi)
       THEN /\ text' = wifi[index + 1]
            /\ out' = DisplayOps(wifi[index + 1], colon)
            /\ pc' = "wifi_wait"
            /\ UNCHANGED raised
       ELSE /\ raised' = "IndexError"
            /\ out' = ClearOps
            /\ pc' = "exit"
            /\ UNCHANGED text
    /\ UNCHANGED <<settings, file, input_queue, loopVars, subVars, colon, level,
                   now, calls, found, autoVars, tracing, handled, cyc>>

\* set_wifi: input = input_queue.get() in the selection loop, and its dispatch
WifiWait ==
    /\ pc = "wifi_wait"
    /\ input_queue # <<>>
    /\ LET e == Head(input_queue)
       IN  /\ input_queue' = Tail(input_queue)
           /\ handled' = Consumed("wifi", e)
           /\ CASE e \in {"up", "right"} ->
                     /\ index' = (index + 1) % Len(wifi)
                     /\ cyc' = CycStep(cyc, index, "n", Len(wifi))
                     /\ pc' = "wifi_show"
                     /\ UNCHANGED ssid
                [] e \in {"down", "left"} ->
                     /\ index' = (index - 1) % Len(wifi)
                     /\ cyc' = CycStep(cyc, index, "p", Len(wifi))
                     /\ pc' = "wifi_show"
                     /\ UNCHANGED ssid
                [] e = "confirm" ->
                     /\ ssid' = wifi[index + 1]
                     /\ pc' = "pw_enter"
                     /\ UNCHANGED <<index, cyc>>
                [] OTHER ->
                     /\ pc' = "wifi_show"
                     /\ UNCHANGED <<index, ssid, cyc>>
    /\ UNCHANGED <<settings, file, loopVars, password, done, wifi, pw, octet,
                   dispVars, metaVars>>

\* set_wifi: password = []; index = 0; the prompt and its dwell; done = False
PwEnter ==
    /\ pc = "pw_enter"
    /\ password' = <<>>
    /\ index' = 0
    /\ text' = EnterPassword
    /\ out' = DisplayOps(EnterPassword, colon) \o <<DwellSleep>>
    /\ done' = FALSE
    /\ cyc' = NoCyc
    /\ pc' = "pw_top"
    /\ UNCHANGED <<settings, file, input_queue, loopVars, wifi, ssid, pw, octet,
                   colon, level, now, metaVars, handled>>

\* Mutant of UpMessage: reports success whatever the activation returned
UpMessage_AlwaysGood(rc) == Good

\* set_wifi: the message after `nmcli connection up` (any exception: FAIL)
UpMessage(rc) == IF rc = "0" THEN Good ELSE Fail

\* set_wifi: `nmcli connection add`; on failure FAIL, the dwell and return
\* (the caller sets state = "clock" and leaves the menu loop)
WifiAdd ==
    /\ pc = "wifi_add"
    /\ \E rc \in RunResults :
          /\ calls' = Append(calls, Call("add", ssid, pw, rc, <<>>))
          /\ IF rc = "0"
             THEN /\ pc' = "wifi_up"
                  /\ UNCHANGED <<text, out, state>>
             ELSE /\ text' = Fail
                  /\ out' = DisplayOps(Fail, colon) \o <<DwellSleep>>
                  /\ state' = "clock"
                  /\ pc' = "tail"
    /\ UNCHANGED <<settings, file, input_queue, save_time, item, subVars, colon,
                   level, now, raised, found, autoVars, tracing, handled, cyc>>

\* set_wifi: `nmcli connection up`, the result message, the dwell and return
WifiUp ==
    /\ pc = "wifi_up"
    /\ \E rc \in RunResults :
          /\ calls' = Append(calls, Call("up", ssid, <<>>, rc, <<>>))
          /\ text' = UpMessage(rc)
          /\ out' = DisplayOps(UpMessage(rc), colon) \o <<DwellSleep>>
    /\ state' = "clock"
    /\ pc' = "tail"
    /\ UNCHANGED <<settings, file, input_queue, save_time, item, subVars, colon,
                   level, now, raised, found, autoVars, tracing, handled, cyc>>

-----------------------------------------------------------------------------

(* display_ip_address *)

Loopback == <<"1", "2", "7", ".", "0", ".", "0", ".", "1">>

\* what the regular expression of get_wlan0_ip finds in the output of
\* `ip addr show wlan0`: nothing, or a dotted quad
AddrMatches == {<<>>,
                <<"1", "0", ".", "0", ".", "0", ".", "7">>,
                <<"1", "9", "2", ".", "1", "6", "8", ".", "1", ".", "2", "0">>}

\* s.split("."), the part being read in acc
RECURSIVE SplitDots(_, _)
SplitDots(s, acc) ==
    IF s = <<>> THEN <<acc>>
    ELSE IF Head(s) = "." THEN <<acc>> \o SplitDots(Tail(s), <<>>)
    ELSE SplitDots(Tail(s), Append(acc, Head(s)))

\* Mutant of IpNext: the index wraps to the first component after the last
IpNext_Wrap(i, n) == (i + 1) % n

\* display_ip_address: index = min(index + 1, len(octet) - 1)
IpNext(i, n) == IF i + 1 < n - 1 THEN i + 1 ELSE n - 1

\* display_ip_address: index = max(0, index - 1)
IpPrev(i) == IF i - 1 > 0 THEN i - 1 ELSE 0

\* display_ip_address: ip = get_wlan0_ip() or "127.0.0.1"; octet = ip.split(".");
\* index = 0.  An `ip` command that cannot be run raises out of the function.
IpEntry ==
    /\ pc = "ip_entry"
    /\ \/ \E m \in AddrMatches :
             /\ calls' = Append(calls, Call("ip", <<>>, <<>>, "0", <<m>>))
             /\ octet' = SplitDots(IF m = <<>> THEN Loopback ELSE m, <<>>)
             /\ index' = 0
             /\ pc' = "ip_show"
             /\ UNCHANGED <<raised, out>>
       \/ /\ calls' = Append(calls, Call("ip", <<>>, <<>>, "raise", <<>>))
          /\ raised' = "FileNotFoundError"
          /\ out' = ClearOps
          /\ pc' = "exit"
          /\ UNCHANGED <<octet, index>>
    /\ UNCHANGED <<settings, file, input_queue, loopVars, password, done, wifi,
                   ssid, pw, colon, level, now, text, found, autoVars, tracing, handled, cyc>>

\* display_ip_address: disp.display(f"{octet[index]}")
IpShow ==
    /\ pc = "ip_show"
    /\ text' = octet[index + 1]
    /\ out' = DisplayOps(octet[index + 1], colon)
    /\ pc' = "ip_wait"
    /\ UNCHANGED <<settings, file, input_queue, loopVars, subVars, colon, level,
                   now, histVars>>

\* display_ip_address: input = input_queue.get() and its dispatch; on return
\* the caller sets state = "clock" and leaves the menu loop
IpWait ==
    /\ pc = "ip_wait"
    /\ input_queue # <<>>
    /\ LET e == Head(input_queue)
       IN  /\ input_queue' = Tail(input_queue)
           /\ handled' = Consumed("ip", e)
           /\ CASE e \in {"up", "right"} ->
                     /\ index' = IpNext(index, Len(octet))
                     /\ pc' = "ip_show"
                     /\ UNCHANGED state
                [] e \in {"down", "left"} ->
                     /\ index' = IpPrev(index)
                     /\ pc' = "ip_show"
                     /\ UNCHANGED state
                [] e = "confirm" ->
                     /\ state' = "clock"
                     /\ pc' = "tail"
                     /\ UNCHANGED index
                [] OTHER ->
                     /\ pc' = "ip_show"
                     /\ UNCHANGED <<index, state>>
    /\ UNCHANGED <<settings, file, save_time, item, password, done, wifi, ssid,
                   pw, octet, dispVars, metaVars, cyc>>

-----------------------------------------------------------------------------

(* Exceptions that leave the loop: a failing bus write *)

\* the screens of the main loop at the point where they call disp.display
RenderPoints == {"top", "menu_show", "flash_show", "h24_show"}

\* the text the handler at pc is about to display (t: the clock reading)
RenderText(t) ==
    CASE pc = "top"        -> TimeText(settings, t)
      [] pc = "menu_show"  -> menu_items[item + 1]
      [] pc = "flash_show" -> FlashText(settings.flash_colon)
      [] pc = "h24_show"   -> HourText(settings.hour_24)

\* and the value of disp.colon it is displayed with
RenderColon(t) ==
    IF pc = "top" THEN DisplayTimeColon(settings.flash_colon, t.second) ELSE colon

\* the number of frames display() writes for a text
Frames(txt) == IF Len(txt) <= 4 THEN 1 ELSE Len(txt) - 3

\* what display() has put on the bus (and slept) before its k-th frame write
BeforeFrame(txt, col, k) == SubSeq(DisplayOps(txt, col), 1, 2 * k - 2)

\* SMBus raises OSError in the k-th frame write of the display call a screen
\* makes.  Nothing in the loop catches it: the finally clause of __main__ runs
\* disp.clear(), on the same bus (it writes the blank frame, or fails too),
\* and the program ends.
DisplayRaises ==
    /\ pc \in RenderPoints
    /\ pc = "top" => state = "clock"
    /\ \E t \in LoopTimes :
          /\ text' = RenderText(t)
          /\ colon' = RenderColon(t)
          /\ now' = IF pc = "top" THEN t ELSE now
          /\ \E k \in 1..Frames(RenderText(t)), cleared \in {ClearOps, <<>>} :
                out' = BeforeFrame(RenderText(t), RenderColon(t), k) \o cleared
    /\ raised' = "OSError"
    /\ pc' = "exit"
    /\ UNCHANGED <<settings, file, input_queue, loopVars, subVars, level,
                   calls, found, autoVars, tracing, handled, cyc>>

-----------------------------------------------------------------------------

(* Exceptions that leave the loop: KeyboardInterrupt *)

\* the positions of the control loop inside `try:`
LoopPoints == {"top", "drain", "menu_show", "menu_wait", "flash_show", "flash_wait",
               "h24_show", "h24_wait", "tail"}

\* Mutant of FinallyOps: the finally clause leaves the display as it is
FinallyOps_Nothing == <<>>

\* __main__: finally: disp.clear()
FinallyOps == ClearOps

\* KeyboardInterrupt arrives while the loop is at pc: between two statements,
\* in a wait or in the sleep of the tail (the display as the last call left
\* it), or inside the display call a screen makes, during the sleep after its
\* (k-1)-th scroll window.  `except KeyboardInterrupt` prints, the finally
\* clause clears the display, and the program ends.
Interrupt ==
    /\ pc \in LoopPoints
    /\ \/ /\ out' = out \o FinallyOps
          /\ UNCHANGED <<text, colon, now>>
       \/ /\ pc \in RenderPoints
          /\ pc = "top" => state = "clock"
          /\ \E t \in LoopTimes :
                /\ Frames(RenderText(t)) > 1
                /\ text' = RenderText(t)
                /\ colon' = RenderColon(t)
                /\ now' = IF pc = "top" THEN t ELSE now
                /\ \E k \in 2..Frames(RenderText(t)) :
                      out' = BeforeFrame(RenderText(t), RenderColon(t), k) \o FinallyOps
    /\ raised' = "KeyboardInterrupt"
    /\ pc' = "exit"
    /\ UNCHANGED <<settings, file, input_queue, loopVars, subVars, level,
                   calls, found, autoVars, tracing, handled, cyc>>

-----------------------------------------------------------------------------

(* Initial states *)

\* nothing queued, no sub-screen running, nothing rendered yet
Idle ==
    /\ input_queue = <<>> /\ save_time = 0 /\ item = 0
    /\ index = 0 /\ password = <<>> /\ done = FALSE
    /\ wifi = <<>> /\ ssid = <<>> /\ pw = <<>> /\ octet = <<>>
    /\ now = NoTime /\ text = <<>>
    /\ raised = "none" /\ calls = <<>> /\ found = file /\ NoAuto
    /\ handled = <<>> /\ cyc = NoCyc

\* settings files with every key present
FilesWith(B, Z) ==
    {SaveOf(d) : d \in [brightness : B, timezone : Z,
                        hour_24 : BOOLEAN, flash_colon : BOOLEAN]}

NoFile  == [kind |-> "missing", data |-> Defaults]
BadFile == [kind |-> "malformed", data |-> Defaults]

\* The program as started, before ClockSettings() runs, with file f on disk
Started(F, tr) ==
    /\ pc = "load"
    /\ file \in F
    /\ settings = Defaults
    /\ state = "clock" /\ colon = TRUE /\ level = 0 /\ out = <<>>
    /\ tracing = tr
    /\ Idle

\* The program at the top of its loop in the clock state, settings s loaded
\* from (or just saved to) the file
AtTop(S) ==
    /\ pc = "top"
    /\ settings \in S
    /\ file = SaveOf(settings)
    /\ state = "clock" /\ colon = TRUE /\ level = settings.brightness % 16
    /\ out = ClearOps
    /\ tracing = FALSE
    /\ Idle

-----------------------------------------------------------------------------
(* SpecTime: the clock renderer at every wall-clock reading *)

InitTime ==
    AtTop([brightness : {0}, timezone : {"America/Chicago"},
           hour_24 : BOOLEAN, flash_colon : BOOLEAN])

NextTime == ClockRenderAll

SpecTime == InitTime /\ [][NextTime]_vars

-----------------------------------------------------------------------------
(* SpecBright, SpecAnyFile: start-up and the clock state under brightness events *)

InitBright == Started(FilesWith(0..15, {"America/Chicago"}) \cup {NoFile, BadFile}, FALSE)

InitAnyFile == Started(FilesWith((0 - FileSlack)..(15 + FileSlack), {"America/Chicago"}), FALSE)

NextBright ==
    \/ Load
    \/ DispInit
    \/ ClockRenderLoop
    \/ DrainEvent
    \/ DrainDone
    \/ Produce(BrightnessEvents)

SpecBright == InitBright /\ [][NextBright]_vars

SpecAnyFile == InitAnyFile /\ [][NextBright]_vars


-----------------------------------------------------------------------------
(* Spec: the whole control loop of clock.py with set_flash and set_24h, up to
   the call of set_timezone (followed in SpecTz), of set_wifi (its password
   loop in SpecPw) and of display_ip_address, with the history of consumed
   events kept *)

Init == Started(FilesWith({0}, {"America/Chicago"}) \cup {NoFile, BadFile}, TRUE)

Next ==
    \/ Load
    \/ DispInit
    \/ ClockRenderLoop
    \/ DrainEvent
    \/ DrainDone
    \/ MenuShow
    \/ MenuWait
    \/ FlashShow
    \/ FlashWait
    \/ H24Show
    \/ H24Wait
    \/ LoopTail
    \/ ProduceAny

Spec == Init /\ [][Next]_vars

-----------------------------------------------------------------------------
(* SpecTz: set_timezone from its call to its return, from every listed zone *)

\* The program inside the menu loop, a sub-screen function just called
InSubScreen(entry, S, it) ==
    /\ pc = entry
    /\ settings \in S
    /\ file = SaveOf(settings)
    /\ state = "menu" /\ colon = FALSE /\ level = settings.brightness % 16
    /\ out = DisplayOps(menu_items[it + 1], FALSE)
    /\ text = menu_items[it + 1]
    /\ tracing = FALSE
    /\ input_queue = <<>> /\ save_time = 0 /\ item = it
    /\ index = 0 /\ password = <<>> /\ done = FALSE
    /\ wifi = <<>> /\ ssid = <<>> /\ pw = <<>> /\ octet = <<>>
    /\ now = NoTime /\ handled = <<>> /\ cyc = NoCyc
    /\ raised = "none" /\ calls = <<>> /\ found = file /\ NoAuto

InitTz ==
    InSubScreen("tz_entry",
                [brightness : {0}, timezone : {ZoneValues[k] : k \in 1..Len(ZoneValues)},
                 hour_24 : {FALSE}, flash_colon : {TRUE}], 2)

NextTz == TzEntry \/ TzShow \/ TzWait \/ ProduceAny

SpecTz == InitTz /\ [][NextTz]_vars

-----------------------------------------------------------------------------
(* SpecPw: the password loop of set_wifi under symbol cycling, the cursor at
   the first or at a later position *)

\* The password loop at its head: entered just now (empty buffer), or after
\* MaxPwLen entries were opened by `right` and the cursor moved to the first
\* entry or past the last
InitPw ==
    /\ pc = "pw_top"
    /\ \E n \in {0, MaxPwLen} :
          /\ password = [k \in 1..n |-> 0]
          /\ index \in {0, n}
          /\ text = IF n = 0 THEN EnterPassword ELSE SymbolValues[1]
    /\ settings = Defaults
    /\ file = SaveOf(Defaults)
    /\ state = "menu" /\ colon = FALSE /\ level = 0
    /\ out = DisplayOps(text, FALSE)
    /\ tracing = FALSE
    /\ input_queue = <<>> /\ save_time = 0 /\ item = 3
    /\ done = FALSE
    /\ wifi = <<<<"n", "e", "t">>>> /\ ssid = <<"n", "e", "t">> /\ pw = <<>> /\ octet = <<>>
    /\ now = NoTime /\ handled = <<>> /\ cyc = NoCyc
    /\ raised = "none" /\ calls = <<>> /\ found = file /\ NoAuto

\* the events that cycle the symbol under the cursor
CyclingEvents == {"up", "down"}

NextPw == PwTop \/ PwWait \/ Produce(CyclingEvents)

SpecPw == InitPw /\ [][NextPw]_vars

-----------------------------------------------------------------------------
(* SpecConnect: set_wifi from the prompt for the password to its return, an
   SSID chosen from a scan, with the history of consumed events kept *)

ConnectScan == <<<<"a", "b">>, <<>>, <<"A">>, <<"a", "b">>>>

InitConnect ==
    /\ pc = "pw_enter"
    /\ wifi = ScanList(ConnectScan)
    /\ index \in 0..(Len(wifi) - 1)
    /\ ssid = wifi[index + 1]
    /\ text = ssid
    /\ settings = Defaults
    /\ file = SaveOf(Defaults)
    /\ state = "menu" /\ colon = FALSE /\ level = 0
    /\ out = DisplayOps(text, FALSE)
    /\ tracing = TRUE
    /\ input_queue = <<>> /\ save_time = 0 /\ item = 3
    /\ password = <<>> /\ done = FALSE /\ pw = <<>> /\ octet = <<>>
    /\ now = NoTime /\ handled = <<>> /\ cyc = NoCyc
    /\ raised = "none" /\ found = file /\ NoAuto
    /\ calls = <<Call("list", <<>>, <<>>, "0", ConnectScan)>>

NextConnect ==
    \/ PwEnter
    \/ PwTop
    \/ PwWait
    \/ WifiAdd
    \/ WifiUp
    \/ ProduceAny

SpecConnect == InitConnect /\ [][NextConnect]_vars

-----------------------------------------------------------------------------

(* SpecBadZone: start-up and the clock state, the settings file naming a zone
   pytz resolves or one it does not *)

InitBadZone == Started(FilesWith({0}, {"America/Chicago", "Mars/Olympus"}), FALSE)

SpecBadZone == InitBadZone /\ [][NextBright]_vars

-----------------------------------------------------------------------------

(* SpecFault: the whole control loop on a bus whose frame writes may fail *)

InitFault == Started({NoFile}, TRUE)

NextFault == Next \/ DisplayRaises

SpecFault == InitFault /\ [][NextFault]_vars

-----------------------------------------------------------------------------

(* SpecInterrupt: the whole control loop, interrupted at any point *)

NextInterrupt == Next \/ Interrupt

SpecInterrupt == InitFault /\ [][NextInterrupt]_vars

-----------------------------------------------------------------------------

(* SpecScan: set_wifi from its call to the prompt for the password, for every
   scan output of at most MaxLines lines *)

InitScan == InSubScreen("wifi_entry", {Defaults}, 3)

\* next, previous and confirm
SelectEvents == {"up", "left", "confirm"}

NextScan ==
    \/ WifiEntry
    \/ WifiShow
    \/ WifiWait
    \/ PwEnter
    \/ Produce(SelectEvents)

SpecScan == InitScan /\ [][NextScan]_vars

-----------------------------------------------------------------------------

(* SpecMenu: the menu from the moment Clock dequeues left or right, with
   set_flash, set_24h, set_timezone and display_ip_address, up to the return
   to the top of the loop (set_wifi is followed in SpecScan and SpecConnect);
   the keyboard's '+' stands for an event the menu does not recognise *)

InitMenu ==
    /\ pc = "drain"
    /\ now = [hour |-> 13, minute |-> 5, second |-> 31]
    /\ settings = Defaults
    /\ file = SaveOf(settings)
    /\ state = "clock"
    /\ colon = DisplayTimeColon(settings.flash_colon, now.second)
    /\ text = TimeText(settings, now)
    /\ out = DisplayOps(text, colon)
    /\ level = 0
    /\ input_queue \in {<<"right">>, <<"left">>}
    /\ item \in {0, Len(menu_items) - 2}
    /\ save_time = 0
    /\ index = 0 /\ password = <<>> /\ done = FALSE
    /\ wifi = <<>> /\ ssid = <<>> /\ pw = <<>> /\ octet = <<>>
    /\ raised = "none" /\ calls = <<>> /\ found = file /\ NoAuto
    /\ tracing = FALSE /\ handled = <<>> /\ cyc = NoCyc

\* next, previous, confirm and a key that is none of the five events
MenuKeys == {"up", "left", "confirm", "+"}

NextMenu ==
    \/ DrainEvent
    \/ DrainDone
    \/ MenuShow
    \/ MenuWait
    \/ FlashShow
    \/ FlashWait
    \/ H24Show
    \/ H24Wait
    \/ TzEntry
    \/ TzShow
    \/ TzWait
    \/ IpEntry
    \/ IpShow
    \/ IpWait
    \/ LoopTail
    \/ Produce(MenuKeys)

SpecMenu == InitMenu /\ [][NextMenu]_vars

-----------------------------------------------------------------------------

(* Reading a frame back: what a 16-byte block shows, position by position *)

\* The 16-bit segment word of position p (0..3) of a frame
WordAt(data, p) == data[2 * p + 1] + 256 * data[2 * p + 2]

\* The glyph a character is meant to show (blank when the table lacks it)
GlyphOf(ch) == IF ch \in DOMAIN SEG14 THEN SEG14[ch] ELSE 0

\* The character of s at position p, a space past its end
CharOrSpace(s, p) == IF p < Len(s) THEN s[p + 1] ELSE " "

\* Bit 14 of the word of position 1 is the colon
WithColon(g) == IF (g \div 16384) % 2 = 1 THEN g ELSE g + 16384

\* o is one block transaction of 16 bytes at register 0 showing s (at most 4
\* characters) padded with trailing spaces, with the colon as col says
ShowsPadded(o, s, col) ==
    /\ o.op = "block" /\ o.reg = 0 /\ Len(o.data) = 16
    /\ \A p \in 0..3 :
          WordAt(o.data, p) = IF p = 1 /\ col THEN WithColon(GlyphOf(CharOrSpace(s, p)))
                              ELSE GlyphOf(CharOrSpace(s, p))
    /\ \A k \in 9..16 : o.data[k] = 0

\* C5: for every string of length <= 4, display(s) issues exactly one frame
\* write, a single 16-byte block transaction that shows s padded with trailing
\* spaces to 4 positions.
C5_ShortTextOneFrame ==
    (pc = "ret" /\ Len(text) <= 4) =>
        /\ Len(out) = 1
        /\ ShowsPadded(out[1], text, colon)

C5_Witness ==
    /\ pc = "ret" /\ Len(text) = 2 /\ text[1] = "1" /\ text[2] = "?"
    /\ colon /\ Len(out) = 1 /\ out[1].data[1] = 6

\* C6: for every string of length n > 4, display(s) issues exactly n-3 frame
\* writes, the i-th (i = 0..n-4) showing the window s[i:i+4], in increasing i;
\* a scroll_delay sleep follows every window except the last, and the last
\* thing done is the write of the final 4 characters.
C6_ScrollWindows ==
    (pc = "ret" /\ Len(text) > 4) =>
        LET n == Len(text)
        IN  /\ Len(out) = 2 * (n - 3) - 1
            /\ Cardinality({k \in 1..Len(out) : out[k].op = "block"}) = n - 3
            /\ \A i \in 0..(n - 4) :
                  ShowsPadded(out[2 * i + 1], SubSeq(text, i + 1, i + 4), colon)
            /\ \A i \in 0..(n - 5) : out[2 * i + 2] = ScrollSleep
            /\ ShowsPadded(out[Len(out)], SubSeq(text, n - 3, n), colon)

C6_Witness ==
    /\ pc = "ret" /\ Len(text) = 6 /\ text[1] = "1" /\ text[6] = "?"
    /\ Len(out) = 5 /\ out[2].op = "sleep" /\ out[5].op = "block"

\* C1: starting from a brightness in [0,15], after any sequence of clock-state
\* brightness events (up, down, confirm) the brightness is still in [0,15];
\* an increase at 15 leaves 15 and a decrease at 0 leaves 0 (no wraparound).
C1_BrightnessClamped ==
    /\ [](settings.brightness \in 0..15)
    /\ [][(pc = "drain" /\ input_queue # <<>> /\ input_queue' = Tail(input_queue)) =>
            /\ (Head(input_queue) = "up" /\ settings.brightness = 15)
                  => settings'.brightness = 15
            /\ (Head(input_queue) = "down" /\ settings.brightness = 0)
                  => settings'.brightness = 0]_vars

C1_Witness ==
    /\ pc = "drain" /\ settings.brightness = 15 /\ file.data.brightness = 14
    /\ save_time = 10 /\ input_queue = <<"up">>

\* C2: Settings.brightness is in [0,15] in every reachable state, also directly
\* after load() of a well-formed settings file holding any integer brightness.
C2_BrightnessAlwaysInRange ==
    (pc # "load") => settings.brightness \in 0..15

\* the bit of a frame that lights the colon
ColonBit(data) == (WordAt(data, 1) \div 16384) % 2 = 1

\* C7: every frame emitted by the clock renderer has the colon bit set iff
\* flash_colon is disabled, or it is enabled and the current second is even.
C7_ColonRule ==
    (pc = "drain") =>
        \A k \in 1..Len(out) :
            out[k].op = "block" =>
                (ColonBit(out[k].data) <=> (~settings.flash_colon \/ now.second % 2 = 0))

C7_Witness ==
    /\ pc = "drain" /\ settings.flash_colon /\ now.second = 1
    /\ Len(out) = 1 /\ ~ColonBit(out[1].data)

\* the digit a character writes
DigitVal(c) == CHOOSE d \in 0..9 : DigitChar[d + 1] = c

Digits == {DigitChar[d + 1] : d \in 0..9}

\* the hour a reading shows: unchanged in 24-hour mode; in 12-hour mode
\* 0 -> 12, 13..23 -> hour - 12, 1..12 unchanged
ExpectedHour(h24, hour) ==
    IF h24 THEN hour
    ELSE IF hour = 0 THEN 12 ELSE IF hour > 12 THEN hour - 12 ELSE hour

\* C8: for every hour and minute the clock renders the hour space-padded to
\* width 2 followed by the minute zero-padded to width 2, the hour mapped to
\* 1..12 in 12-hour mode; the text is exactly 4 characters and one tick emits
\* exactly one frame, showing it.
C8_TimeText ==
    (pc = "drain") =>
        LET H == ExpectedHour(settings.hour_24, now.hour)
        IN  /\ Len(text) = 4
            /\ text[1] \in Digits \cup {" "} /\ text[1] # "0"
            /\ (text[1] = " ") <=> (H < 10)
            /\ \A k \in 2..4 : text[k] \in Digits
            /\ (IF text[1] = " " THEN 0 ELSE 10 * DigitVal(text[1])) + DigitVal(text[2]) = H
            /\ 10 * DigitVal(text[3]) + DigitVal(text[4]) = now.minute
            /\ ~settings.hour_24 => H \in 1..12
            /\ Len(out) = 1
            /\ ShowsPadded(out[1], text, colon)

C8_Witness ==
    /\ pc = "drain" /\ ~settings.hour_24 /\ now.hour = 0 /\ now.minute = 5
    /\ text = <<"1", "2", "0", "5">> /\ Len(out) = 1

\* the k-th consumed event was e, consumed by screen scr
Took(k, scr, e) == handled[k].scr = scr /\ handled[k].ev = e

C4_CountdownEveryTick ==
    [][(pc = "drain" /\ pc' = "top" /\ save_time > 0) =>
          /\ save_time' = save_time - 1
          /\ (save_time' = 0) => (file' = SaveOf(settings))]_vars

\* a run of n steps in direction d
RunOf(d, n) == [k \in 1..n |-> d]

\* C9: in set_timezone, from any of the 7 listed zones, 7 next steps return to
\* the starting zone, previous undoes next and next undoes previous, and after
\* every step settings.timezone is the zone at the current index.
C9_TimezoneCycle ==
    (pc \in {"tz_show", "tz_wait", "tail"}) =>
        /\ Len(ZoneValues) = 7
        /\ index \in 0..6
        /\ settings.timezone = ZoneValues[index + 1]
        /\ (cyc.path = RunOf("n", 7)) => (index = cyc.base)
        /\ (cyc.path \in {<<"n", "p">>, <<"p", "n">>}) => (index = cyc.base)

C9_Witness ==
    /\ pc = "tz_wait" /\ cyc.path = RunOf("n", 7) /\ cyc.base = 3 /\ index = 3
    /\ settings.timezone = "America/Los_Angeles"

\* C10: in the password loop, with K the size of the symbol table, K up steps
\* at a fixed cursor position return that position's symbol index to its
\* starting value, down undoes up and up undoes down, and every index in the
\* buffer stays in 0..K-1.
C10_SymbolCycle ==
    (pc \in {"pw_top", "pw_wait"}) =>
        LET K == Len(SymbolKeys)
        IN  /\ \A k \in 1..Len(password) : password[k] \in 0..(K - 1)
            /\ (cyc.path = RunOf("n", K)) => (password[index + 1] = cyc.base)
            /\ (cyc.path \in {<<"n", "p">>, <<"p", "n">>}) => (password[index + 1] = cyc.base)

C10_Witness ==
    /\ pc = "pw_wait" /\ cyc.path = RunOf("n", Len(SymbolKeys))
    /\ cyc.base = 5 /\ password[index + 1] = 5 /\ index = MaxPwLen


CallsOf(cmd) == SelectSeq(calls, LAMBDA c : c.cmd = cmd)

\* C12: once password entry is finalized the profile add is attempted exactly
\* once and the activation at most once, only after a successful add (no
\* retry); when set_wifi returns, the display shows GOOD iff both steps
\* returned 0 and FAIL in every other case, exactly one result message was
\* shown, followed by the dwell, and the machine is in Clock.
C12_ConnectOnceGoodOrFail ==
    /\ (pc \in {"pw_enter", "pw_top", "pw_wait", "wifi_add"}) =>
          CallsOf("add") = <<>> /\ CallsOf("up") = <<>>
    /\ (pc = "wifi_up") =>
          /\ Len(CallsOf("add")) = 1 /\ CallsOf("add")[1].rc = "0"
          /\ CallsOf("up") = <<>>
          /\ text = pw
    /\ (pc = "tail") =>
          LET adds == CallsOf("add")
              ups  == CallsOf("up")
              ok   == /\ adds[1].rc = "0"
                      /\ Len(ups) = 1
                      /\ ups[1].rc = "0"
          IN  /\ Len(adds) = 1
              /\ Len(ups) = (IF adds[1].rc = "0" THEN 1 ELSE 0)
              /\ ok => text = <<"G", "O", "O", "D">>
              /\ ~ok => text = <<"F", "A", "I", "L">>
              /\ Len(out) = 2
              /\ ShowsPadded(out[1], text, colon)
              /\ out[2].op = "dwell"
              /\ state = "clock"

C12_Witness ==
    /\ pc = "tail" /\ text = <<"F", "A", "I", "L">> /\ state = "clock"
    /\ Len(CallsOf("add")) = 1 /\ Len(CallsOf("up")) = 1 /\ CallsOf("up")[1].rc = "raise"
    /\ CallsOf("add")[1].psk = <<"b">>


\* C13: if the configured timezone cannot be resolved, the clock renderer
\* falls back to a default zone and keeps rendering: an unresolvable
\* settings.timezone never raises out of the render loop or ends it.
C13_BadZoneKeepsRendering ==
    (settings.timezone \notin PytzZones) => (raised = "none" /\ pc # "exit")


\* C14: a failing display bus write, in Clock, in MenuList or in a sub-screen,
\* does not end the control loop (the frame is skipped and rendering goes on
\* with the next tick).
C14_BusFaultKeepsLooping ==
    ~(raised = "OSError" /\ pc = "exit")


\* C15: when the interrupt arrives at any point of the main loop (in Clock, in
\* MenuList, in a sub-screen wait or in the middle of a scroll), the program
\* leaves the loop, and the last display operation before it ends is clear(),
\* one block write of an all-blank frame.
C15_InterruptClearsLast ==
    (raised = "KeyboardInterrupt") =>
        /\ pc = "exit"
        /\ out # <<>>
        /\ LET last == out[Len(out)]
           IN  /\ last.op = "block" /\ last.reg = 0 /\ Len(last.data) = 16
               /\ \A k \in 1..16 : last.data[k] = 0

\* interrupted in the sleep after the first window of the scrolling "FLASH  On"
C15_Witness ==
    /\ raised = "KeyboardInterrupt" /\ pc = "exit"
    /\ text = <<"F", "L", "A", "S", "H", " ", " ", "O", "n">>
    /\ Len(out) = 3 /\ out[1].op = "block" /\ out[1].data[1] = 241
    /\ out[2].op = "sleep"


\* C16: every event the encoder thread enqueues is dequeued by the control
\* loop exactly once and in enqueue order: a step either leaves the queue
\* alone, or is the producer appending one event at the back (touching
\* neither the display nor anything else of the loop), or is the loop taking
\* the event at the front and dispatching exactly that one; events queued
\* while the loop is busy stay queued, and none is dropped.
C16_QueueFifoNoLoss ==
    [][\/ /\ input_queue' = input_queue
          /\ handled' = handled
       \/ /\ \E e \in {"up", "down", "left", "right", "confirm"} :
                input_queue' = input_queue \o <<e>>
          /\ handled' = handled
          /\ UNCHANGED <<pc, colon, level, out, text, settings, file, state, item>>
       \/ /\ input_queue # <<>>
          /\ input_queue' = SubSeq(input_queue, 2, Len(input_queue))
          /\ Len(handled') = Len(handled) + 1
          /\ SubSeq(handled', 1, Len(handled)) = handled
          /\ handled'[Len(handled')].ev = input_queue[1]]_vars

\* two events wait, in order, while the loop is about to scroll "FLASH  On"
C16_Witness ==
    /\ pc = "flash_show" /\ Len(handled) = 2
    /\ input_queue = <<"up", "confirm">>


\* a comes strictly before b in lexicographic order of code points
Precedes(a, b) ==
    \E k \in 1..(Len(a) + 1) :
        /\ k <= Len(b)
        /\ \A j \in 1..(k - 1) : a[j] = b[j]
        /\ (k <= Len(a)) => Ord[a[k]] < Ord[b[k]]

\* the lines of the scan set_wifi ran
Scanned == CallsOf("list")[1].stdout

\* C17: the SSID list offered for selection holds each non-empty scanned SSID
\* exactly once, in ascending lexicographic order, whatever the order and the
\* repetitions of the scan output.
C17_ScanListSortedUnique ==
    (pc \in {"wifi_show", "wifi_wait", "pw_enter", "pw_top"}) =>
        /\ {wifi[k] : k \in 1..Len(wifi)}
              = {Scanned[j] : j \in 1..Len(Scanned)} \ {<<>>}
        /\ \A i \in 1..Len(wifi) : \A j \in 1..Len(wifi) :
              (i < j) => (wifi[i] # wifi[j] /\ Precedes(wifi[i], wifi[j]))

C17_Witness ==
    /\ pc = "wifi_wait"
    /\ Scanned = <<<<"a", "b">>, <<"A">>, <<"a", "b">>>>
    /\ wifi = <<<<"A">>, <<"a", "b">>>>


\* C18: each event is interpreted against the screen that is current when it
\* is consumed: once a left or right event has been consumed in Clock the
\* machine is in MenuList(0), so the event that follows it in the queue is
\* handled by the menu (up/right moves to index 1, confirm opens FLASH) and
\* does not change brightness, whether or not both events were already queued
\* when the loop started draining.
C18_NextEventGoesToMenu ==
    \A k \in 1..(Len(handled) - 1) :
        (handled[k].scr = "clock" /\ handled[k].ev \in {"left", "right"}) =>
            /\ handled[k + 1].scr = "menu"
            /\ (Len(handled) = k + 1) =>
                  /\ settings.brightness = handled[k].pre.brightness
                  /\ (handled[k + 1].ev \in {"up", "right"} /\ pc \in {"menu_show", "menu_wait"})
                        => item = 1
                  /\ (handled[k + 1].ev = "confirm") => pc \in {"flash_show", "flash_wait"}


\* the entry of the sub-screen a menu label names
ScreenNamed(label) ==
    CASE label = <<"F", "L", "A", "S", "H">> -> "flash_show"
      [] label = <<"2", "4", "H">>           -> "h24_show"
      [] label = <<"Z", "O", "N", "E">>      -> "tz_entry"
      [] label = <<"W", "I", "F", "I">>      -> "wifi_entry"
      [] label = <<"I", "P">>                -> "ip_entry"

\* the positions inside the sub-screens followed here
InSub == {"flash_show", "flash_wait", "h24_show", "h24_wait",
          "tz_entry", "tz_show", "tz_wait", "ip_entry", "ip_show", "ip_wait"}

\* C19: MenuList always opens at index 0 (FLASH); over the 5 items up/right
\* move to (index+1) mod 5 and down/left to (index-1) mod 5, so the index is
\* always in 0..4 and 5 steps in one direction return to the start; confirm
\* enters exactly the sub-screen named by the current index, and when that
\* sub-screen ends the machine is in Clock; an event outside {up, down, left,
\* right, confirm} returns to Clock without changing Settings.
C19_MenuList ==
    /\ [](pc \in {"menu_show", "menu_wait"} =>
            /\ Len(menu_items) = 5
            /\ item \in 0..4
            /\ (cyc.path = <<>>) => (item = 0)
            /\ (cyc.path = RunOf("n", 5)) => (item = cyc.base)
            /\ (cyc.path \in {<<"n", "p">>, <<"p", "n">>}) => (item = cyc.base))
    /\ [][(pc = "menu_wait" /\ input_queue # <<>> /\ input_queue' = Tail(input_queue)) =>
            LET e == Head(input_queue)
            IN  /\ (e \in {"up", "right"}) =>
                      /\ item' = (IF item = 4 THEN 0 ELSE item + 1)
                      /\ pc' = "menu_show"
                /\ (e \in {"down", "left"}) =>
                      /\ item' = (IF item = 0 THEN 4 ELSE item - 1)
                      /\ pc' = "menu_show"
                /\ (e = "confirm") =>
                      /\ pc' = ScreenNamed(menu_items[item + 1])
                      /\ item' = item
                /\ (e \notin {"up", "down", "left", "right", "confirm"}) =>
                      /\ state' = "clock" /\ pc' = "tail"
                      /\ file' = file
                /\ settings' = settings]_vars
    /\ [][(pc \in InSub /\ pc' \notin InSub /\ raised' = "none") =>
            (state' = "clock" /\ pc' = "tail")]_vars

\* five steps forward have brought the menu back to FLASH
C19_Witness ==
    /\ pc = "menu_wait" /\ cyc.path = RunOf("n", 5) /\ cyc.base = 0 /\ item = 0
    /\ text = <<"F", "L", "A", "S", "H">>


\* the characters a buffer of symbol indices stands for, first to last
RECURSIVE Decode(_)
Decode(p) == IF p = <<>> THEN <<>> ELSE <<SymbolKeys[Head(p) + 1]>> \o Decode(Tail(p))

\* the loop has just taken event e in the password screen
TakesInPassword(e) ==
    /\ pc = "pw_wait" /\ input_queue # <<>> /\ Head(input_queue) = e
    /\ input_queue' = Tail(input_queue)

\* C20: in the password screen the connection is started only by a confirm
\* taken while done (committed) is true; a confirm taken while it is false only
\* shows the assembled plaintext and sets it; up and down reset it, so that
\* two further confirms are needed; the password handed to nmcli is the
\* plaintext last previewed, the decoding of the whole buffer as it stands.
C20_ConfirmTwiceThenConnect ==
    /\ [][/\ (pc # "wifi_add" /\ pc' = "wifi_add") => (TakesInPassword("confirm") /\ done)
          /\ (calls' # calls) => pc \in {"wifi_add", "wifi_up"}
          /\ (TakesInPassword("confirm") /\ ~done) =>
                /\ done' /\ pc' = "pw_top"
                /\ text' = Decode(password) /\ pw' = text'
                /\ password' = password /\ calls' = calls
          /\ (TakesInPassword("up") \/ TakesInPassword("down")) =>
                (~done' /\ pc' = "pw_top")]_vars
    /\ [](pc = "wifi_add" =>
            /\ Len(handled) >= 2
            /\ handled[Len(handled)].ev = "confirm"
            /\ handled[Len(handled) - 1].ev = "confirm"
            /\ pw = Decode(password) /\ text = pw)
    /\ [](pc \in {"wifi_up", "tail"} =>
            /\ CallsOf("add")[1].psk = Decode(password)
            /\ CallsOf("add")[1].psk = pw
            /\ CallsOf("add")[1].ssid = ssid)

\* confirm, up, confirm, confirm: the connection starts with the one-letter
\* password "b"
C20_Witness ==
    /\ pc = "wifi_up" /\ Len(handled) = 4
    /\ handled[1].ev = "confirm" /\ handled[2].ev = "up"
    /\ handled[3].ev = "confirm" /\ handled[4].ev = "confirm"
    /\ CallsOf("add")[1].psk = <<"b">>


-----------------------------------------------------------------------------
(* The time zone screen opened with any stored zone: one of the seven the
   screen lists, or one that pytz resolves and the screen does not list *)

InitAnyZone ==
    InSubScreen("tz_entry",
                [brightness : {0},
                 timezone : {ZoneValues[k] : k \in 1..Len(ZoneValues)} \cup {"Europe/Paris"},
                 hour_24 : {FALSE}, flash_colon : {TRUE}], 2)

SpecAnyZone == InitAnyZone /\ [][NextTz]_vars

-----------------------------------------------------------------------------

(* The address screen opened from the menu, any events arriving *)

InitIp ==
    InSubScreen("ip_entry",
                [brightness : {0, 5}, timezone : {"America/Chicago"},
                 hour_24 : BOOLEAN, flash_colon : BOOLEAN], 4)

NextIp == IpEntry \/ IpShow \/ IpWait \/ ProduceAny

SpecIp == InitIp /\ [][NextIp]_vars

-----------------------------------------------------------------------------

(* The FLASH and 24H screens opened from the menu, possibly with a brightness
   changed in the clock state and not yet written to the file *)

InitToggle ==
    /\ \E it \in {0, 1} :
          /\ pc = SubScreenEntry[it + 1]
          /\ item = it
          /\ text = menu_items[it + 1]
          /\ out = DisplayOps(menu_items[it + 1], FALSE)
    /\ settings \in [brightness : {0, 5}, timezone : {"America/Chicago"},
                     hour_24 : BOOLEAN, flash_colon : BOOLEAN]
    /\ file = SaveOf([settings EXCEPT !.brightness = 0])
    /\ save_time = IF settings.brightness = 0 THEN 0 ELSE 3
    /\ state = "menu" /\ colon = FALSE /\ level = settings.brightness % 16
    /\ tracing = TRUE
    /\ input_queue = <<>>
    /\ index = 0 /\ password = <<>> /\ done = FALSE
    /\ wifi = <<>> /\ ssid = <<>> /\ pw = <<>> /\ octet = <<>>
    /\ now = NoTime /\ handled = <<>> /\ cyc = NoCyc
    /\ raised = "none" /\ calls = <<>> /\ found = file /\ NoAuto

\* the five encoder events and a key that is none of them
TypedKeys == Events \cup {"+"}

NextToggle == FlashShow \/ FlashWait \/ H24Show \/ H24Wait \/ Produce(TypedKeys)

SpecToggle == InitToggle /\ [][NextToggle]_vars

-----------------------------------------------------------------------------

(* smallclock.py: the clock without a menu, which dims the display by itself *)

\* Display._DIG_ADDR and Display._COLON_ADDR
DIG_ADDR == <<0, 2, 6, 8>>
COLON_ADDR == 4

\* Display._SEG7
SEG7 ==
       " " :> 0 @@ "-" :> 64 @@ "_" :> 8 @@
       "0" :> 63 @@ "1" :> 6 @@ "2" :> 91 @@ "3" :> 79 @@
       "4" :> 102 @@ "5" :> 109 @@ "6" :> 125 @@ "7" :> 7 @@
       "8" :> 127 @@ "9" :> 111 @@
       "A" :> 119 @@ "a" :> 95 @@
       "b" :> 124 @@ "C" :> 57 @@ "c" :> 88 @@
       "d" :> 94 @@ "E" :> 121 @@ "e" :> 123 @@
       "F" :> 113 @@ "H" :> 118 @@ "h" :> 116 @@
       "I" :> 6 @@ "i" :> 4 @@ "J" :> 30 @@
       "L" :> 56 @@ "n" :> 84 @@ "o" :> 92 @@
       "P" :> 115 @@ "r" :> 80 @@ "S" :> 109 @@
       "t" :> 120 @@ "U" :> 62 @@ "Y" :> 110 @@
       "Z" :> 91

\* Display._encode_char_7seg
EncodeChar7seg(ch) == IF ch \in DOMAIN SEG7 THEN SEG7[ch] ELSE 0

\* Display._write_four_chars of smallclock.py: one block of 16 bytes, a glyph
\* at each digit address and 0x02 at the colon address when the colon is on
SmallWriteFourChars(s4, col) ==
    LET s == SubSeq(s4 \o <<" ", " ", " ", " ">>, 1, 4)
    IN  BlockWrite(0, [k \in 1..16 |->
            IF \E pos \in 1..4 : DIG_ADDR[pos] + 1 = k
            THEN EncodeChar7seg(s[CHOOSE pos \in 1..4 : DIG_ADDR[pos] + 1 = k])
            ELSE IF k = COLON_ADDR + 1 THEN (IF col THEN 2 ELSE 0)
            ELSE 0])

\* The scroll loop of smallclock's Display.display, from window i
RECURSIVE SmallScrollFrom(_, _, _)
SmallScrollFrom(t, i, col) ==
    LET n == Len(t)
    IN  IF i > n - 4 THEN <<>>
        ELSE <<SmallWriteFourChars(SubSeq(t, i + 1, i + 4), col)>>
             \o (IF i < n - 4 THEN <<ScrollSleep>> ELSE <<>>)
             \o SmallScrollFrom(t, i + 1, col)

\* smallclock Display.display
SmallDisplayOps(t, col) ==
    IF Len(t) <= 4 THEN <<SmallWriteFourChars(t, col)>>
    ELSE SmallScrollFrom(t, 0, col)

\* smallclock Display.clear
SmallClearOps == <<BlockWrite(0, BlankFrame)>>

\* what is_dark_outside() can return: it depends on the date and the time of
\* day in America/Chicago, which the model leaves open
IsDarkOutside == BOOLEAN

\* Mutant of AutoDim: the brightness follows the daylight whatever it was
AutoDim_FromAnyLevel(b, dk) == IF dk THEN 0 ELSE 15

\* __main__ of smallclock.py: the brightness after the check of one minute
AutoDim(b, dk) ==
    IF b = 0 /\ ~dk THEN 15
    ELSE IF b = 15 /\ dk THEN 0
    ELSE b

\* seconds since midnight, and the reading d seconds after t
Secs(t) == t.hour * 3600 + t.minute * 60 + t.second
AddSeconds(t, d) ==
    LET total == Secs(t) + d
    IN  [hour |-> (total \div 3600) % 24, minute |-> (total \div 60) % 60,
         second |-> total % 60]

\* the wall clock when the loop starts: shortly before the last minute of an hour
SmallStart == [hour |-> 11, minute |-> 58, second |-> 58]

\* after ClockSettings() and Display(...): last_minute = -1
InitSmall ==
    /\ pc = "small_top"
    /\ settings \in [brightness : {0, 7, 15}, timezone : {"America/Chicago"},
                     hour_24 : {FALSE}, flash_colon : BOOLEAN]
    /\ file = SaveOf(settings)
    /\ state = "clock" /\ colon = TRUE /\ level = settings.brightness % 16
    /\ out = SmallClearOps
    /\ now = SmallStart /\ text = <<>>
    /\ tracing = FALSE
    /\ input_queue = <<>> /\ save_time = 0 /\ item = 0
    /\ index = 0 /\ password = <<>> /\ done = FALSE
    /\ wifi = <<>> /\ ssid = <<>> /\ pw = <<>> /\ octet = <<>>
    /\ raised = "none" /\ calls = <<>> /\ found = file /\ NoAuto
    /\ handled = <<>> /\ cyc = NoCyc

\* The head of the loop: disp.colon = ...; display_time(disp, settings).
\* The loop is followed for MaxElapsed seconds of wall clock.  The sleep at
\* the end of the previous pass aims at the next second boundary; the model
\* lets the next reading fall in the same second, the next or the one after.
SmallRender ==
    /\ pc = "small_top"
    /\ Secs(now) - Secs(SmallStart) < MaxElapsed
    /\ \E d \in 0..2 :
          LET t == AddSeconds(now, d)
          IN  /\ now' = t
              /\ IF settings.timezone \in PytzZones
                 THEN /\ colon' = DisplayTimeColon(settings.flash_colon, t.second)
                      /\ text' = TimeText(settings, t)
                      /\ out' = SmallDisplayOps(TimeText(settings, t),
                                      DisplayTimeColon(settings.flash_colon, t.second))
                      /\ pc' = "small_check"
                      /\ UNCHANGED raised
                 ELSE /\ colon' = LoopHeadColon(settings.flash_colon, t.second)
                      /\ raised' = "UnknownTimeZoneError"
                      /\ out' = SmallClearOps
                      /\ pc' = "exit"
                      /\ UNCHANGED text
    /\ UNCHANGED <<settings, file, input_queue, loopVars, subVars, level,
                   calls, found, autoVars, tracing, handled, cyc>>

\* The rest of one pass: now = datetime.now(...); the check made on the first
\* second of a minute; the sleep to the next second
SmallCheck ==
    /\ pc = "small_check"
    /\ \E d \in 0..1, dk \in IsDarkOutside :
          LET u  == AddSeconds(now, d)
              b  == settings.brightness
              nb == AutoDim(b, dk)
          IN  /\ now' = u
              /\ IF u.second = 0 /\ u.minute # last_minute
                 THEN /\ last_minute' = u.minute
                      /\ dark' = dk
                      /\ settings' = [settings EXCEPT !.brightness = nb]
                      /\ level' = IF nb # b THEN ClampLevel(nb) ELSE level
                      /\ dimmed' = IF nb # b THEN Append(dimmed, u) ELSE dimmed
                 ELSE UNCHANGED <<last_minute, dark, settings, level, dimmed>>
    /\ pc' = "small_top"
    /\ UNCHANGED <<file, input_queue, loopVars, subVars, colon, out, text,
                   raised, calls, found, tracing, handled, cyc>>

\* Ctrl-C during the loop: except KeyboardInterrupt, then finally: disp.clear()
SmallInterrupt ==
    /\ pc \in {"small_top", "small_check"}
    /\ raised' = "KeyboardInterrupt"
    /\ out' = out \o SmallClearOps
    /\ pc' = "exit"
    /\ UNCHANGED <<settings, file, input_queue, loopVars, subVars, colon, level,
                   now, text, calls, found, autoVars, tracing, handled, cyc>>

NextSmall == SmallRender \/ SmallCheck \/ SmallInterrupt

SpecSmall == InitSmall /\ [][NextSmall]_vars

-----------------------------------------------------------------------------

(* C21: the cursor and the buffer of the password loop *)

\* the cursor after the first k consumed events, as the claim describes the
\* moves: right adds one, left takes one away but not below 0
RECURSIVE CursorAfter(_)
CursorAfter(k) ==
    IF k = 0 THEN 0
    ELSE LET c == CursorAfter(k - 1)
         IN  IF handled[k].scr # "password" THEN c
             ELSE IF handled[k].ev = "right" THEN c + 1
             ELSE IF handled[k].ev = "left" THEN (IF c = 0 THEN 0 ELSE c - 1)
             ELSE c

\* the highest cursor position reached so far
HighestCursor ==
    CHOOSE m \in 0..Len(handled) :
        /\ \E k \in 0..Len(handled) : CursorAfter(k) = m
        /\ \A k \in 0..Len(handled) : CursorAfter(k) <= m

\* C21: whenever the password loop waits for an event the cursor is inside the
\* buffer and every entry is an index of the symbol table; the cursor is where
\* the right and left events consumed so far put it (one step each, left
\* floored at 0); the buffer only ever grows, by one entry of value 0 at a
\* time, and its length is 1 plus the highest cursor position reached.
C21_CursorInsideBuffer ==
    /\ [](pc = "pw_wait" =>
            /\ 0 <= index /\ index < Len(password)
            /\ \A k \in 1..Len(password) : password[k] \in 0..(Len(SymbolKeys) - 1)
            /\ index = CursorAfter(Len(handled))
            /\ Len(password) = 1 + HighestCursor)
    /\ [][/\ Len(password') >= Len(password)
          /\ Len(password') > Len(password) => password' = Append(password, 0)]_vars

\* right, right, left: the buffer has three entries and the cursor is on the second
C21_Witness ==
    /\ pc = "pw_wait"
    /\ Len(handled) = 3
    /\ handled[1].ev = "right" /\ handled[2].ev = "right" /\ handled[3].ev = "left"
    /\ Len(password) = 3 /\ index = 1


-----------------------------------------------------------------------------
(* C22: entering the time zone screen *)

\* C22: the step that enters the time zone screen leaves the index at the
\* position of the stored zone in the list of seven, and when the stored zone
\* is not in the list it raises nothing and the control loop goes on.
C22_EntryFindsZoneOrFailsSoftly ==
    [][(pc = "tz_entry" /\ pc' # "tz_entry") =>
          /\ raised' = "none"
          /\ pc' # "exit"
          /\ (\E k \in 1..Len(ZoneValues) : ZoneValues[k] = settings.timezone)
                => ZoneValues[index' + 1] = settings.timezone]_vars


-----------------------------------------------------------------------------
(* C23: paging through the address *)

\* the event the address screen is about to take
IpTakes(E) ==
    /\ pc = "ip_wait" /\ pc' # "ip_wait"
    /\ Head(input_queue) \in E

\* C23: the address screen shows four components and starts on the first; up
\* and right go one component forward and stay on the last, down and left go
\* one back and stay on the first, so the index is always in 0..3; confirm
\* goes back to the clock; when the lookup finds no address the components
\* are 127, 0, 0, 1; and nothing on this screen changes the settings or the
\* settings file.
C23_IpPaging ==
    /\ [](pc \in {"ip_show", "ip_wait"} =>
            /\ Len(octet) = 4
            /\ index \in 0..3
            /\ calls[Len(calls)].stdout = <<<<>>>> =>
                  octet = <<<<"1", "2", "7">>, <<"0">>, <<"0">>, <<"1">>>>)
    /\ [][/\ (pc = "ip_entry" /\ pc' = "ip_show") => index' = 0
          /\ IpTakes({"up", "right"}) =>
                (index' = IF index = 3 THEN 3 ELSE index + 1) /\ pc' = "ip_show"
          /\ IpTakes({"down", "left"}) =>
                (index' = IF index = 0 THEN 0 ELSE index - 1) /\ pc' = "ip_show"
          /\ IpTakes({"confirm"}) => state' = "clock" /\ pc' = "tail"
          /\ (pc = "ip_wait" /\ pc' \notin {"ip_wait", "ip_show"}) => IpTakes({"confirm"})
          /\ settings' = settings /\ file' = file]_vars

\* no address was found, the user went forward to the last component of
\* 127.0.0.1 and tries to go further
C23_Witness ==
    /\ pc = "ip_wait"
    /\ calls[Len(calls)].stdout = <<<<>>>>
    /\ index = 3 /\ text = <<"1">>
    /\ input_queue # <<>> /\ Head(input_queue) = "right"


-----------------------------------------------------------------------------
(* C24: the two on/off screens *)

\* the screen at wait point w is about to take an event of E
ToggleTakes(w, E) ==
    /\ pc = w /\ pc' # w
    /\ Head(input_queue) \in E

\* two directional events in a row on one screen, the second being event k
TwoTurns(k) ==
    /\ handled[k - 1].scr = handled[k].scr
    /\ handled[k - 1].ev \in Directions /\ handled[k].ev \in Directions

-----------------------------------------------------------------------------
(* C25: the index of the network list *)

\* C25: whatever the scan returned, an empty list included, the index of the
\* network screen is a position of the list while the screen is open, and
\* showing the entry at the index never fails.
C25_IndexValidForAnyScan ==
    /\ pc \in {"wifi_show", "wifi_wait"} => index \in 0..(Len(wifi) - 1)
    /\ raised # "IndexError"


-----------------------------------------------------------------------------
(* C26: auto-dimming *)

\* C26: the auto-dimming loop changes the brightness only on a reading whose
\* second is 0 in a minute other than the last one handled, and only from 0 to
\* 15 when it is not dark or from 15 to 0 when it is dark; a brightness of 1
\* to 14 stays as it is; no two changes fall in the same minute; no other
\* field of the settings changes and the settings file is never written.
C26_AutoDimOncePerMinute ==
    /\ [][/\ settings'.brightness # settings.brightness =>
                /\ now'.second = 0
                /\ now'.minute # last_minute
                /\ last_minute' = now'.minute
                /\ \/ settings.brightness = 0 /\ settings'.brightness = 15 /\ ~dark'
                   \/ settings.brightness = 15 /\ settings'.brightness = 0 /\ dark'
                /\ level' = settings'.brightness
          /\ settings.brightness \in 1..14 => settings' = settings
          /\ settings' = [settings EXCEPT !.brightness = settings'.brightness]
          /\ file' = file]_vars
    /\ [](\A i, j \in 1..Len(dimmed) :
              i < j => <<dimmed[i].hour, dimmed[i].minute>> # <<dimmed[j].hour, dimmed[j].minute>>)

\* started at 0: raised to 15 at 11:59:00 in daylight, back to 0 at 12:00:00
\* in the dark, the file still as it was found
C26_Witness ==
    /\ pc = "small_top"
    /\ Len(dimmed) = 2
    /\ dimmed[1] = [hour |-> 11, minute |-> 59, second |-> 0]
    /\ dimmed[2] = [hour |-> 12, minute |-> 0, second |-> 0]
    /\ found.data.brightness = 0 /\ settings.brightness = 0 /\ level = 0
    /\ dark /\ last_minute = 0
    /\ file = found

=============================================================================
